---- MODULE Spec2Model ----
(***************************************************************************)
(* A model of the hb_prototype battle engine.  The repository holds        *)
(* programs that share no objects:                                         *)
(*   "battle"  BattleSystem / BattleState / game_core.Fighter /            *)
(*             effect_manager.EffectManager  (float scores),               *)
(*   "round"   game.round.Round / effects.manager.EffectManager /          *)
(*             effects.base.Effect / pillz.*  (integer points), driven as  *)
(*             the loop of main.py drives them,                            *)
(*   "effects" the same EffectManager and Effect, their operations called  *)
(*             one by one as the tests call them,                          *)
(*   "game"    game_mechanics.GameRound / game_mechanics.Fighter.          *)
(* The variable program says which of them a behaviour runs.               *)
(*                                                                         *)
(* Arithmetic.  BattleSystem computes float points                         *)
(* base_damage * (1 - resistance / 100); every multiplier in the catalogue *)
(* is 0.0, 1.0 or 2.0, so points * 100 is an integer and the model holds   *)
(* scores and points of the "battle" program in hundredths of a point, as  *)
(* exact numbers: the double the code holds is the one nearest to them, up *)
(* to the rounding of the three float operations.                          *)
(* Round and GameRound round the same expression to an int with Python's   *)
(* round(); PyRound below reproduces it, float ties included.              *)
(***************************************************************************)
EXTENDS Integers, Sequences, FiniteSets, TLC

VARIABLES
    program,        \* which of the programs runs
    core,           \* game_core.Fighter objects, fighter1 and fighter2
    next_id,        \* PillzEffect objects created so far, per fighter (uuid4 ids)
    battle_state,   \* BattleState: current_round, round_history, current_round_state
    round_states,   \* the RoundState objects of battle_state.py, by reference
    returned,       \* the tuple BattleSystem.process_round returned last
    modified_stats, \* the dict EffectManager.process_effects returned last
    fighters,       \* game_mechanics.Fighter objects, fighter1 and fighter2
    round,          \* game.round.Round: round_number and its RoundState
    effects,        \* the effects.base.Effect objects created so far, by reference
    active_effects, \* effects.manager.EffectManager.active_effects
    pending_effects,\* effects.manager.EffectManager.pending_effects
    effect_history, \* effects.manager.EffectManager.effect_history
    game_round,     \* game_mechanics.GameRound: move1, move2 and the string returned
    raised,         \* the exception the last call raised, None if it returned
    ai_pillz,       \* the Pillz object the caller holds: its type and its _effect
    stat_modifier,  \* a StatModifier object of its own
    got,            \* what get_value() of the modifier returned last
    battle_log,     \* the battle_log list of simulate_single_battle
    pc              \* where simulate_single_battle stands in its loop

vars == <<program, core, next_id, battle_state, round_states, returned,
          modified_stats, fighters, round, effects, active_effects, pending_effects, effect_history, game_round, raised,
          ai_pillz, stat_modifier, got, battle_log, pc>>

battle_vars == <<core, next_id, battle_state, round_states, returned, modified_stats>>
round_vars == <<fighters, round, effects, active_effects, pending_effects,
                effect_history>>
simulate_vars == <<battle_log, pc>>
object_vars == <<ai_pillz, stat_modifier, got, simulate_vars>>

None == "None"

\* _effect of a pillz that has initialized no effect: effects are numbered from 1.
NoEffect == 0

\* The variable that holds no Pillz object.
NoPillz == [type |-> None, _effect |-> NoEffect]

\* The variable that holds no StatModifier object.
NoModifier == [value |-> [int |-> TRUE, n |-> 0], is_random |-> FALSE,
               _cached_random_value |-> 0, _testing_mode |-> FALSE]

\* simulate_single_battle is not running.
IdleSimulate ==
    /\ battle_log = <<>>
    /\ pc = None

\* No Pillz object, no StatModifier object, nothing returned.
IdleObjects ==
    /\ ai_pillz = NoPillz
    /\ stat_modifier = NoModifier
    /\ got = 0
    /\ IdleSimulate

\* The ValueError messages.
UnknownFighter == "ValueError: Unknown fighter"
MovesNotSelected == "ValueError: Both fighters must select moves before resolution"
MovesNotSet == "ValueError: Moves must be set before resolving round"
UnknownPillzType == "ValueError: Unknown pillz type"
FighterIds == {1, 2}
Other(i) == 3 - i

(***************************************************************************)
(* Bounds of the model.                                                    *)
(***************************************************************************)
MaxHistory == 2     \* process_round calls modelled per battle
MaxPillz == 2       \* PillzEffect objects created per battle
MaxRoundNumber == 2 \* rounds played by a main loop; round numbers of "effects"
MaxEffects == 2     \* Effect objects created per behaviour of "effects"
MaxLog == 2         \* log_effect calls per behaviour of "log"
MaxActive == 2      \* effects per fighter in the "process" program

\* The divisor of the damage formula.
Hundred == 100

\* The fighters a battle is started with: names, then (damage, resistance).
\* get_round_result_for_fighter looks for 'fighter1' and 'fighter2' in the result
\* text: one name is a tag it finds, the other is not.
FighterConfigs ==
    {[names |-> <<"fighter1", "AI">>, stats |-> <<<<30, 95>>, <<20, 30>>>>]}

(***************************************************************************)
(* Moves.                                                                  *)
(***************************************************************************)
MoveNames == {"Rush", "Strike", "Sweep", "Guard", "Grapple"}

move_relationships ==
    [m \in MoveNames |->
        CASE m = "Rush" -> {"Strike", "Sweep"}
          [] m = "Strike" -> {"Sweep", "Grapple"}
          [] m = "Sweep" -> {"Guard", "Grapple"}
          [] m = "Guard" -> {"Rush", "Strike"}
          [] m = "Grapple" -> {"Rush", "Guard"}]

Moves == {"RUSH", "STRIKE", "SWEEP", "GUARD", "GRAPPLE"}

\* A table in which GRAPPLE no longer beats GUARD.
MOVE_ADVANTAGES_Short ==
    [m \in Moves |->
        CASE m = "RUSH" -> {"STRIKE", "SWEEP"}
          [] m = "STRIKE" -> {"SWEEP", "GRAPPLE"}
          [] m = "SWEEP" -> {"GUARD", "GRAPPLE"}
          [] m = "GUARD" -> {"RUSH", "STRIKE"}
          [] m = "GRAPPLE" -> {"RUSH"}]

MOVE_ADVANTAGES ==
    [m \in Moves |->
        CASE m = "RUSH" -> {"STRIKE", "SWEEP"}
          [] m = "STRIKE" -> {"SWEEP", "GRAPPLE"}
          [] m = "SWEEP" -> {"GUARD", "GRAPPLE"}
          [] m = "GUARD" -> {"RUSH", "STRIKE"}
          [] m = "GRAPPLE" -> {"RUSH", "GUARD"}]

\* The move pairs process_round is given: a draw and wins either way.
MovePairs == {<<"Rush", "Rush">>, <<"Rush", "Strike">>, <<"Strike", "Rush">>}

\* does_move_win reading only the first move of each list of move_relationships.
does_move_win_first(move1, move2) ==
    move2 = CASE move1 = "Rush" -> "Strike"
              [] move1 = "Strike" -> "Sweep"
              [] move1 = "Sweep" -> "Guard"
              [] move1 = "Guard" -> "Rush"
              [] move1 = "Grapple" -> "Rush"

does_move_win(move1, move2) == move2 \in move_relationships[move1]

\* BattleSystem._get_base_round_result(move1, move2).
_get_base_round_result(move1, move2) ==
    IF move1 = move2 THEN "draw"
    ELSE IF does_move_win(move1, move2) THEN "fighter1 wins"
    ELSE IF does_move_win(move2, move1) THEN "fighter2 wins"
    ELSE "no effect"

(***************************************************************************)
(* game_core: PillzEffect and the Pillz catalogue.                         *)
(* A round_effects entry that omits a key leaves the matching final stat   *)
(* untouched, which is what its neutral value (1, FALSE) does.             *)
(***************************************************************************)
Neutral == [damage_multiplier |-> 1, resistance_multiplier |-> 1, skip_round |-> FALSE]

RandomBonus == {10}   \* a draw of random.randint(1, 10)

CorePillzTypes == {"SOUTH_PACIFIC", "NORDIC_SHIELD", "GODZILLA_CAKE", "KISS", "SAILOR_MOON"}

get_effect(pillz_type, bonus, id) ==
    CASE pillz_type = "SOUTH_PACIFIC" ->
            [id |-> id, name |-> "South Pacific (Dexterity)", duration |-> 2,
             activation_condition |-> "ALWAYS", effect_type |-> "DAMAGE",
             priority |-> 1, permanent_bonus |-> 0, counters |-> {},
             round_effects |->
                (0 :> [Neutral EXCEPT !.damage_multiplier = 0, !.skip_round = TRUE]
                 @@ 1 :> [Neutral EXCEPT !.damage_multiplier = 2])]
      [] pillz_type = "NORDIC_SHIELD" ->
            [id |-> id, name |-> "Nordic Shield (Shield)", duration |-> 2,
             activation_condition |-> "ON_LOSE", effect_type |-> "RESISTANCE",
             priority |-> 1, permanent_bonus |-> 0, counters |-> {},
             round_effects |->
                (0 :> Neutral
                 @@ 1 :> [Neutral EXCEPT !.resistance_multiplier = 2])]
      [] pillz_type = "GODZILLA_CAKE" ->
            [id |-> id, name |-> "Godzilla Cake (Brave)", duration |-> -1,
             activation_condition |-> "ALWAYS", effect_type |-> "PERMANENT_DAMAGE",
             priority |-> 2, permanent_bonus |-> bonus, counters |-> {},
             round_effects |-> (0 :> Neutral)]
      [] pillz_type = "KISS" ->
            [id |-> id, name |-> "Kiss (Don't Cry +10 RES)", duration |-> -1,
             activation_condition |-> "ON_LOSE", effect_type |-> "PERMANENT_RESISTANCE",
             priority |-> 2, permanent_bonus |-> 10, counters |-> {},
             round_effects |-> (0 :> Neutral)]
      [] pillz_type = "SAILOR_MOON" ->
            [id |-> id, name |-> "Sailor Moon (Resolve)", duration |-> -1,
             activation_condition |-> "ALWAYS", effect_type |-> "PERMANENT_RESISTANCE",
             priority |-> 2, permanent_bonus |-> bonus, counters |-> {},
             round_effects |-> (0 :> Neutral)]

\* The bonus values get_effect can draw for a pillz type.
BonusChoices(pillz_type) ==
    IF pillz_type \in {"GODZILLA_CAKE", "SAILOR_MOON"} THEN RandomBonus ELSE {0}

is_active(effect, current_round, activation_round, round_result) ==
    IF effect.duration = -1 THEN TRUE
    ELSE IF current_round - activation_round >= effect.duration THEN FALSE
    ELSE CASE effect.activation_condition = "ALWAYS" -> TRUE
           [] effect.activation_condition = "ON_WIN" -> round_result = "win"
           [] effect.activation_condition = "ON_LOSE" -> round_result = "lose"
           [] effect.activation_condition = "ON_DRAW" -> round_result = "draw"
           [] OTHER -> FALSE

get_effect_values(effect, rounds_active) ==
    IF rounds_active \in DOMAIN effect.round_effects
    THEN effect.round_effects[rounds_active]
    ELSE Neutral

get_total_damage(f) == f.damage + f.permanent_damage_bonus
get_total_resistance(f) == f.resistance + f.permanent_resistance_bonus

(***************************************************************************)
(* effect_manager.EffectManager (the "battle" program).                    *)
(***************************************************************************)
RECURSIVE SortByPriority(_)
\* sorted(..., key=priority, reverse=True): stable, higher priority first.
SortByPriority(list) ==
    IF list = <<>> THEN <<>>
    ELSE LET top == CHOOSE p \in {list[k].priority : k \in DOMAIN list} :
                        \A k \in DOMAIN list : list[k].priority <= p
             at == CHOOSE k \in DOMAIN list :
                        /\ list[k].priority = top
                        /\ \A j \in 1..(k - 1) : list[j].priority # top
             rest == [j \in 1..(Len(list) - 1) |-> IF j < at THEN list[j] ELSE list[j + 1]]
         IN <<list[at]>> \o SortByPriority(rest)

_get_sorted_effects(fighter) == SortByPriority(fighter.active_effects)

\* _check_counters that finds no counter.
_check_counters_none(effect, opponent_effects) == FALSE

_check_counters(effect, opponent_effects) ==
    \E k \in DOMAIN opponent_effects : effect.effect_type \in opponent_effects[k].counters

\* No effect of the catalogue carries effect_modifiers, so the base values stand.
_calculate_effect_values(effect, bs) ==
    get_effect_values(effect, Len(bs.round_history))

\* The ProcessedEffect list: is_countered and final_values per effect.
_process_fighter_effects(fighter_effects, opponent_effects, bs) ==
    [k \in DOMAIN fighter_effects |->
        IF _check_counters(fighter_effects[k], opponent_effects)
        THEN [is_countered |-> TRUE, final_values |-> Neutral]
        ELSE [is_countered |-> FALSE,
              final_values |-> _calculate_effect_values(fighter_effects[k], bs)]]

RECURSIVE _calculate_final_stats_assign(_)
\* _calculate_final_stats that assigns skip_round instead of or-ing it.
_calculate_final_stats_assign(processed_effects) ==
    IF processed_effects = <<>> THEN Neutral
    ELSE LET n == Len(processed_effects)
             acc == _calculate_final_stats_assign(SubSeq(processed_effects, 1, n - 1))
             pe == processed_effects[n]
         IN IF pe.is_countered THEN acc
            ELSE [damage_multiplier |->
                      acc.damage_multiplier * pe.final_values.damage_multiplier,
                  resistance_multiplier |->
                      acc.resistance_multiplier * pe.final_values.resistance_multiplier,
                  skip_round |-> pe.final_values.skip_round]

RECURSIVE _calculate_final_stats(_)
_calculate_final_stats(processed_effects) ==
    IF processed_effects = <<>> THEN Neutral
    ELSE LET n == Len(processed_effects)
             acc == _calculate_final_stats(SubSeq(processed_effects, 1, n - 1))
             pe == processed_effects[n]
         IN IF pe.is_countered THEN acc
            ELSE [damage_multiplier |->
                      acc.damage_multiplier * pe.final_values.damage_multiplier,
                  resistance_multiplier |->
                      acc.resistance_multiplier * pe.final_values.resistance_multiplier,
                  skip_round |-> acc.skip_round \/ pe.final_values.skip_round]

process_effects(c, bs) ==
    LET fighter1_effects == _get_sorted_effects(c[1])
        fighter2_effects == _get_sorted_effects(c[2])
    IN [i \in FighterIds |->
          IF i = 1
          THEN _calculate_final_stats(
                   _process_fighter_effects(fighter1_effects, fighter2_effects, bs))
          ELSE _calculate_final_stats(
                   _process_fighter_effects(fighter2_effects, fighter1_effects, bs))]

(***************************************************************************)
(* BattleSystem.                                                           *)
(***************************************************************************)
Max(a, b) == IF a >= b THEN a ELSE b

\* The damage formula without its floor at 0.
BattleCalculateDamageUnclamped(attacker, defender, attacker_stats, defender_stats) ==
    get_total_damage(attacker) * attacker_stats.damage_multiplier
        * (Hundred - get_total_resistance(defender) * defender_stats.resistance_multiplier)

\* max(0, base_damage * (1 - resistance / 100)), in hundredths of a point.
BattleCalculateDamage(attacker, defender, attacker_stats, defender_stats) ==
    LET base_damage == get_total_damage(attacker) * attacker_stats.damage_multiplier
        resistance == get_total_resistance(defender) * defender_stats.resistance_multiplier
        final_damage == base_damage * (Hundred - resistance)
    IN Max(0, final_damage)

\* A result string: f'{name} wins', f'{name} wins (Opponent skipped)', or a fixed text.
Wins(name) == [text |-> "wins", name |-> name]
WinsSkipped(name) == [text |-> "wins (Opponent skipped)", name |-> name]
Fixed(text) == [text |-> text, name |-> None]
NoResult == Fixed(None)   \* result is None

\* _resolve_moves awarding the damage to both fighters.
BattleResolveMovesBoth(c, move1, move2, stats1, stats2) ==
    LET d == get_total_damage(c[1]) + get_total_damage(c[2])
    IN <<Fixed("Draw"), d, d>>

\* (result, points1, points2) of _resolve_moves.
BattleResolveMoves(c, move1, move2, stats1, stats2) ==
    IF move1 = move2 THEN <<Fixed("Draw"), 0, 0>>
    ELSE IF does_move_win(move1, move2)
    THEN <<Wins(c[1].name), BattleCalculateDamage(c[1], c[2], stats1, stats2), 0>>
    ELSE IF does_move_win(move2, move1)
    THEN <<Wins(c[2].name), 0, BattleCalculateDamage(c[2], c[1], stats2, stats1)>>
    ELSE <<Fixed("No effect"), 0, 0>>

\* process_round without its skip_round checks.
RoundOutcomeNoSkip(c, bs, move1, move2) ==
    LET stats == process_effects(c, bs)
    IN BattleResolveMoves(c, move1, move2, stats[1], stats[2])

\* (result, points1, points2) of process_round, before anything is recorded.
RoundOutcome(c, bs, move1, move2) ==
    LET stats == process_effects(c, bs)
        fighter1_skip == stats[1].skip_round
        fighter2_skip == stats[2].skip_round
    IN IF fighter1_skip /\ fighter2_skip
       THEN <<Fixed("Both fighters skip (Pillz effect)"), 0, 0>>
       ELSE IF fighter1_skip
       THEN <<WinsSkipped(c[2].name), 0,
              BattleCalculateDamage(c[2], c[1], stats[2], stats[1])>>
       ELSE IF fighter2_skip
       THEN <<WinsSkipped(c[1].name),
              BattleCalculateDamage(c[1], c[2], stats[1], stats[2]), 0>>
       ELSE BattleResolveMoves(c, move1, move2, stats[1], stats[2])

(***************************************************************************)
(* BattleState.                                                            *)
(***************************************************************************)
max_rounds == 6

NewRoundState(n) ==
    [round_number |-> n, fighter1_move |-> None, fighter2_move |-> None,
     fighter1_effect |-> None, fighter2_effect |-> None,
     result |-> NoResult, points_gained1 |-> 0, points_gained2 |-> 0]

\* str.lower() of the fighter names the model uses.
Lower(name) == IF name = "Player" THEN "player" ELSE IF name = "AI" THEN "ai" ELSE name

\* tag + ' wins' in result.lower(): only a 'wins' text holds ' wins', right after
\* the winner's name, and no name of FighterConfigs has a proper suffix equal to a tag.
InLower(tag, result) == result.name # None /\ Lower(result.name) = tag

get_round_result_for_fighter(bs, rs, i) ==
    LET result == rs[bs.current_round_state].result
    IN IF result = NoResult THEN "none"
       ELSE IF result = Fixed("draw") THEN "draw"
       ELSE IF i = 1
       THEN (IF InLower("fighter1", result) THEN "win" ELSE "lose")
       ELSE (IF InLower("fighter2", result) THEN "win" ELSE "lose")

RECURSIVE KeepActive(_, _, _, _)
\* The effects update_effects keeps, in order.
KeepActive(list, rounds, current_round, round_result) ==
    IF list = <<>> THEN <<>>
    ELSE LET e == Head(list)
             tail == KeepActive(Tail(list), rounds, current_round, round_result)
         IN IF /\ e.id \in DOMAIN rounds
               /\ is_active(e, current_round, rounds[e.id], round_result)
            THEN <<e>> \o tail
            ELSE tail

update_effects(f, current_round, round_result) ==
    LET kept == KeepActive(f.active_effects, f.activation_rounds,
                           current_round, round_result)
        ids == {kept[k].id : k \in DOMAIN kept}
    IN [f EXCEPT !.active_effects = kept,
                 !.activation_rounds = [id \in ids |-> f.activation_rounds[id]]]

(***************************************************************************)
(* The "battle" program: its operations.                                   *)
(***************************************************************************)
NewCoreFighter(name, stats) ==
    [name |-> name, damage |-> stats[1], resistance |-> stats[2], score |-> 0,
     permanent_damage_bonus |-> 0, permanent_resistance_bonus |-> 0,
     active_effects |-> <<>>, activation_rounds |-> <<>>]

IdleRound == [round_number |-> 0, resolved |-> TRUE,
              state |-> [fighter1_move |-> None, fighter2_move |-> None,
                         fighter1_pillz |-> None, fighter2_pillz |-> None,
                         round_winner |-> None, damage_dealt |-> 0]]
IdleFighters == [i \in FighterIds |-> [name |-> None, damage |-> 0, resistance |-> 0, points |-> 0]]
IdleCore == [i \in FighterIds |-> NewCoreFighter(None, <<0, 0>>)]
IdleBattleState == [current_round |-> 0, round_history |-> <<>>, current_round_state |-> 0]
IdleGameRound == [round_num |-> 0, move1 |-> None, move2 |-> None,
                  outcome |-> None, damage |-> 0]

InitBattle ==
    /\ program = "battle"
    /\ \E cfg \in FighterConfigs :
          core = [i \in FighterIds |-> NewCoreFighter(cfg.names[i], cfg.stats[i])]
    /\ next_id = [i \in FighterIds |-> 0]
    /\ battle_state = [current_round |-> 1, round_history |-> <<>>,
                       current_round_state |-> 1]
    /\ round_states = <<NewRoundState(1)>>
    /\ returned = <<NoResult, 0, 0>>
    /\ modified_stats = <<>>
    /\ fighters = IdleFighters
    /\ round = IdleRound
    /\ effects = <<>>
    /\ active_effects = [i \in FighterIds |-> <<>>]
    /\ pending_effects = [i \in FighterIds |-> <<>>]
    /\ effect_history = <<>>
    /\ game_round = IdleGameRound
    /\ raised = None
    /\ IdleObjects

\* apply_pillz that adds the permanent bonus of the effect twice.
apply_pillz_twice(f, pillz_type, bonus, id, current_round) ==
    LET effect == get_effect(pillz_type, bonus, id)
        dmg == IF effect.effect_type = "PERMANENT_DAMAGE" THEN effect.permanent_bonus ELSE 0
        res == IF effect.effect_type = "PERMANENT_RESISTANCE" THEN effect.permanent_bonus ELSE 0
    IN [f EXCEPT !.permanent_damage_bonus = @ + dmg + dmg,
                 !.permanent_resistance_bonus = @ + res + res,
                 !.active_effects = Append(@, effect),
                 !.activation_rounds = (id :> current_round) @@ @]

\* Fighter.apply_pillz(pillz_type, current_round) for the round the battle is in.
apply_pillz(f, pillz_type, bonus, id, current_round) ==
    LET effect == get_effect(pillz_type, bonus, id)
        dmg == IF effect.effect_type = "PERMANENT_DAMAGE" THEN effect.permanent_bonus ELSE 0
        res == IF effect.effect_type = "PERMANENT_RESISTANCE" THEN effect.permanent_bonus ELSE 0
    IN [f EXCEPT !.permanent_damage_bonus = @ + dmg,
                 !.permanent_resistance_bonus = @ + res,
                 !.active_effects = Append(@, effect),
                 !.activation_rounds = (id :> current_round) @@ @]

ApplyPillz ==
    /\ program = "battle"
    /\ next_id[1] + next_id[2] < MaxPillz
    /\ Len(battle_state.round_history) < MaxHistory
    \* the pillz phase of a round precedes its combat phase
    /\ \A k \in DOMAIN battle_state.round_history :
          battle_state.round_history[k] # battle_state.current_round_state
    /\ \E i \in FighterIds, pillz_type \in CorePillzTypes :
         \E bonus \in BonusChoices(pillz_type) :
            \* a fighter takes one pillz in the pillz phase of a round
            /\ \A id \in DOMAIN core[i].activation_rounds :
                  core[i].activation_rounds[id] # battle_state.current_round
            \* a uuid4 is a fresh token: the fighter and a serial number
            /\ core' = [core EXCEPT ![i] = apply_pillz(@, pillz_type, bonus,
                                                       <<i, next_id[i] + 1>>,
                                                       battle_state.current_round)]
            /\ next_id' = [next_id EXCEPT ![i] = @ + 1]
    /\ UNCHANGED <<program, battle_state, round_states, returned, modified_stats,
                   round_vars, game_round, raised, object_vars>>

\* BattleSystem.process_round(battle_state, move1, move2).
ProcessRound ==
    /\ program = "battle"
    /\ Len(battle_state.round_history) < MaxHistory
    /\ \E moves \in MovePairs :
         LET move1 == moves[1]
             move2 == moves[2]
             cur == battle_state.current_round_state
             out == RoundOutcome(core, battle_state, move1, move2)
             scored == [i \in FighterIds |->
                          [core[i] EXCEPT !.score = @ + out[i + 1]]]
             recorded == [round_states EXCEPT
                             ![cur].fighter1_move = move1,
                             ![cur].fighter2_move = move2,
                             ![cur].result = out[1],
                             ![cur].points_gained1 = out[2],
                             ![cur].points_gained2 = out[3]]
             bs == [battle_state EXCEPT !.round_history = Append(@, cur)]
         IN /\ round_states' = recorded
            /\ battle_state' = bs
            /\ core' = [i \in FighterIds |->
                          update_effects(scored[i], bs.current_round,
                                         get_round_result_for_fighter(bs, recorded, i))]
            /\ returned' = out
    /\ UNCHANGED <<program, next_id, modified_stats, round_vars, game_round, raised, object_vars>>

\* BattleState.advance_round(): False and no change once current_round >= max_rounds.
AdvanceRound ==
    /\ program = "battle"
    \* simulate_single_battle advances after process_round recorded the round
    /\ \E k \in DOMAIN battle_state.round_history :
          battle_state.round_history[k] = battle_state.current_round_state
    /\ IF battle_state.current_round >= max_rounds
       THEN UNCHANGED <<battle_state, round_states>>
       ELSE \* the RoundState replaced stays referred to by round_history
            /\ round_states' = Append(round_states,
                                      NewRoundState(battle_state.current_round + 1))
            /\ battle_state' = [battle_state EXCEPT
                                   !.current_round = @ + 1,
                                   !.current_round_state = Len(round_states) + 1]
    /\ UNCHANGED <<program, core, next_id, returned, modified_stats, round_vars,
                   game_round, raised, object_vars>>

NextBattle == ApplyPillz \/ ProcessRound \/ AdvanceRound

SpecBattle == InitBattle /\ [][NextBattle]_vars

(***************************************************************************)
(* effects.base: StatModifier and Effect (the "round" program).            *)
(***************************************************************************)
NoRound == 0    \* applied_at_round / expires_at_round is None; rounds count from 1
NoValue == 0    \* _cached_random_value is None; random.randint(1, n) is at least 1
HALF == -1      \* what get_value() returns to signal a halving

RandomRolls == {1, 10}   \* the extremes of random.randint(1, 10)

NewStatModifier(stat_type, value, is_random) ==
    [stat_type |-> stat_type, value |-> value, is_random |-> is_random,
     _cached_random_value |-> NoValue]

NewEffect(name, duration, target, activation, modifiers, pending_condition) ==
    [name |-> name, duration |-> duration, target |-> target,
     activation |-> activation, modifiers |-> modifiers,
     is_active |-> FALSE, pending_condition |-> pending_condition,
     applied_at_round |-> NoRound, expires_at_round |-> NoRound]

\* Effect.can_activate(won_round).
EffectCanActivate(effect, won_round) ==
    CASE effect.activation = "ANY" -> TRUE
      [] effect.activation = "WIN_ONLY" -> won_round
      [] effect.activation = "LOSE_ONLY" -> ~won_round
      [] OTHER -> FALSE

\* Effect.apply(current_round): expires_at_round is set for CURRENT only.
apply(effect, current_round) ==
    [effect EXCEPT !.is_active = TRUE,
                   !.applied_at_round = current_round,
                   !.expires_at_round =
                       IF effect.duration = "CURRENT" THEN current_round ELSE @]

\* Effect.should_expire without the duration test: every applied effect expires
\* in the round it was applied in.
should_expire_applied(effect, current_round) ==
    effect.is_active /\ effect.applied_at_round = current_round

should_expire(effect, current_round) ==
    IF ~effect.is_active THEN FALSE
    ELSE IF effect.duration = "PERMANENT" THEN FALSE
    ELSE effect.expires_at_round = current_round

(***************************************************************************)
(* pillz: the Pillz classes and the effects they initialize.               *)
(***************************************************************************)
PillzClasses == {"GODZILLA_CAKE", "SOUTH_PACIFIC", "APRIL", "JURASSIC", "SAILOR_MOON",
                 "GOTHAM", "ALIEN_ATTACK", "OCTOBER", "NORDIC_SHIELD"}

_pillz_registry == PillzClasses \ {"JURASSIC"}

\* The values of the PillzType enum.
PillzType == PillzClasses \cup {"KISS", "BURNING_MAN", "HAWAII_HORROR"}

\* Pillz objects: the type the class passes to the dataclass, and no effect yet.
NewPillz(pillz_class) == [type |-> pillz_class, _effect |-> NoEffect]

\* PillzFactory.create_pillz(pillz_type): the object and the exception.
create_pillz(pillz_type) ==
    IF pillz_type \notin _pillz_registry
    THEN [pillz |-> NoPillz, raised |-> UnknownPillzType]
    ELSE [pillz |-> NewPillz(pillz_type), raised |-> None]

activation_type(pillz_type) ==
    IF pillz_type \in {"JURASSIC", "NORDIC_SHIELD"} THEN "LOSE_MOVE_ONLY" ELSE "ANY_MOVE"

\* can_activate that lets every pillz activate on any outcome.
PillzCanActivateAlways(pillz_type, won_round) == TRUE

\* Pillz.can_activate(won_round).
PillzCanActivate(pillz_type, won_round) ==
    CASE activation_type(pillz_type) = "ANY_MOVE" -> TRUE
      [] activation_type(pillz_type) = "WIN_MOVE_ONLY" -> won_round
      [] activation_type(pillz_type) = "LOSE_MOVE_ONLY" -> ~won_round
      [] OTHER -> FALSE

\* The outcomes of random.choice(self.available_effects), by index.
EffectChoices(pillz_type) ==
    CASE pillz_type = "APRIL" -> {1, 2, 3}
      [] pillz_type = "OCTOBER" -> {1, 2}
      [] OTHER -> {1}

Self(name, duration, activation, stat_type, value, is_random) ==
    NewEffect(name, duration, "SELF", activation,
              <<NewStatModifier(stat_type, value, is_random)>>, None)

Opponent(name, duration, activation, stat_type, value, is_random) ==
    NewEffect(name, duration, "OPPONENT", activation,
              <<NewStatModifier(stat_type, value, is_random)>>, None)

initialize_effect(pillz_type, choice) ==
    CASE pillz_type = "GODZILLA_CAKE" ->
            Self("Brave", "PERMANENT", "ANY", "DAMAGE", 10, TRUE)
      [] pillz_type = "SOUTH_PACIFIC" ->
            NewEffect("Dexterity", "NEXT", "SELF", "ANY",
                      <<NewStatModifier("DAMAGE", 2, FALSE)>>, "WIN")
      [] pillz_type = "APRIL" /\ choice = 1 ->
            Self("Rainbow(Brave)", "PERMANENT", "ANY", "DAMAGE", 10, TRUE)
      [] pillz_type = "APRIL" /\ choice = 2 ->
            Self("Rainbow(Resolve)", "PERMANENT", "ANY", "RESISTANCE", 10, TRUE)
      [] pillz_type = "APRIL" /\ choice = 3 ->
            Self("Rainbow(Don't Cry)", "PERMANENT", "LOSE_ONLY", "RESISTANCE", 10, FALSE)
      [] pillz_type = "JURASSIC" ->
            Opponent("Spike", "CURRENT", "LOSE_ONLY", "DAMAGE", -1, FALSE)
      [] pillz_type = "SAILOR_MOON" ->
            Self("Resolve", "PERMANENT", "ANY", "RESISTANCE", 10, TRUE)
      [] pillz_type = "GOTHAM" ->
            Opponent("Weakness", "PERMANENT", "ANY", "RESISTANCE", 10, TRUE)
      [] pillz_type = "ALIEN_ATTACK" ->
            Opponent("Rust", "PERMANENT", "ANY", "DAMAGE", 10, TRUE)
      [] pillz_type = "OCTOBER" /\ choice = 1 ->
            Opponent("Sadness(Rust)", "PERMANENT", "ANY", "DAMAGE", 10, TRUE)
      [] pillz_type = "OCTOBER" /\ choice = 2 ->
            Opponent("Sadness(Weakness)", "PERMANENT", "ANY", "RESISTANCE", 10, TRUE)
      [] pillz_type = "NORDIC_SHIELD" ->
            Self("Shield", "NEXT", "LOSE_ONLY", "RESISTANCE", 2, FALSE)

(***************************************************************************)
(* round(modified_damage * (1 - modified_resistance / 100)) of Python.     *)
(* The product is a double: where the exact value lies halfway between two *)
(* integers the double may lie just above or just below it, and round()    *)
(* then rounds the double, not the exact value, to the nearest integer.    *)
(* The two tables list the pairs (damage, resistance) of 0..130 x 0..130   *)
(* where that differs from rounding the exact value, ties to even.         *)
(***************************************************************************)
FloatAboveTie ==
    {<<10, 95>>, <<10, 115>>, <<15, 70>>, <<25, 42>>, <<25, 58>>, <<25, 82>>, <<25, 98>>,
     <<25, 114>>, <<25, 122>>, <<30, 85>>, <<35, 70>>, <<50, 43>>, <<50, 71>>, <<50,
     83>>, <<50, 95>>, <<50, 99>>, <<50, 115>>, <<50, 119>>, <<55, 70>>, <<70, 85>>,
     <<75, 70>>, <<75, 86>>, <<75, 94>>, <<75, 118>>, <<90, 95>>, <<90, 115>>, <<95,
     70>>, <<110, 45>>, <<110, 85>>, <<115, 70>>, <<125, 18>>, <<125, 42>>, <<125, 58>>,
     <<125, 82>>, <<125, 98>>, <<125, 114>>, <<125, 122>>, <<130, 95>>, <<130, 115>>}

FloatBelowTie ==
    {<<5, 110>>, <<10, 105>>, <<15, 90>>, <<15, 130>>, <<25, 78>>, <<25, 102>>, <<25,
     110>>, <<30, 55>>, <<35, 90>>, <<35, 130>>, <<45, 30>>, <<45, 110>>, <<50, 81>>,
     <<50, 89>>, <<50, 93>>, <<50, 101>>, <<50, 105>>, <<50, 109>>, <<50, 129>>, <<55,
     90>>, <<55, 130>>, <<65, 110>>, <<70, 55>>, <<75, 34>>, <<75, 66>>, <<75, 90>>,
     <<75, 106>>, <<75, 130>>, <<85, 30>>, <<85, 110>>, <<90, 65>>, <<90, 105>>, <<95,
     90>>, <<95, 130>>, <<105, 110>>, <<110, 55>>, <<115, 90>>, <<115, 130>>, <<125,
     54>>, <<125, 78>>, <<125, 102>>, <<125, 110>>, <<130, 105>>}

\* Rounding of n / 100 to the nearest integer, a tie going to the even one.
RoundHalfEven(n) ==
    LET f == n \div 100
        r == n % 100
    IN IF r > 50 THEN f + 1
       ELSE IF r < 50 THEN f
       ELSE IF f % 2 = 0 THEN f ELSE f + 1

PyRound(modified_damage, modified_resistance) ==
    LET exact == RoundHalfEven(modified_damage * (100 - modified_resistance))
    IN IF <<modified_damage, modified_resistance>> \in FloatAboveTie THEN exact + 1
       ELSE IF <<modified_damage, modified_resistance>> \in FloatBelowTie THEN exact - 1
       ELSE exact

(***************************************************************************)
(* effects.manager.EffectManager and game.round.Round.                     *)
(* An Effect object is its index in effects; the lists hold references.    *)
(***************************************************************************)
Manager == [effects |-> effects, active_effects |-> active_effects,
            pending_effects |-> pending_effects, effect_history |-> effect_history]

\* add_effect without the duration test: every effect goes to the active list.
add_effect_active(m, fighter_id, effect) ==
    [m EXCEPT !.active_effects[fighter_id] = Append(@, effect)]

\* EffectManager.add_effect(fighter_id, effect).
add_effect(m, fighter_id, effect) ==
    IF m.effects[effect].duration = "CURRENT" \/ m.effects[effect].duration = "PERMANENT"
    THEN [m EXCEPT !.active_effects[fighter_id] = Append(@, effect)]
    ELSE [m EXCEPT !.pending_effects[fighter_id] = Append(@, effect)]

\* EffectManager.log_effect(round_number, effect, applied_value, stat_modified,
\* target_fighter).
\* log_effect that puts the entry in front of the history.
log_effect_front(m, round_number, effect, applied_value, stat_modified, target_fighter) ==
    [m EXCEPT !.effect_history =
        <<[round_number |-> round_number,
           effect_name |-> m.effects[effect].name,
           applied_value |-> applied_value,
           stat_modified |-> stat_modified,
           target_fighter |-> target_fighter]>> \o @]

log_effect(m, round_number, effect, applied_value, stat_modified, target_fighter) ==
    [m EXCEPT !.effect_history =
        Append(@, [round_number |-> round_number,
                   effect_name |-> m.effects[effect].name,
                   applied_value |-> applied_value,
                   stat_modified |-> stat_modified,
                   target_fighter |-> target_fighter])]

\* process_round_end that drops every applied effect, whatever its duration,
\* and empties the pending lists.
process_round_end_applied(m, round_number) ==
    LET Stays(effect) == ~m.effects[effect].is_active
    IN [m EXCEPT !.active_effects =
            [i \in FighterIds |-> SelectSeq(m.active_effects[i], Stays)],
                 !.pending_effects = [i \in FighterIds |-> <<>>]]

\* EffectManager.process_round_end(round_number).
process_round_end(m, round_number) ==
    LET Stays(effect) == ~should_expire(m.effects[effect], round_number)
    IN [m EXCEPT !.active_effects =
            [i \in FighterIds |-> SelectSeq(m.active_effects[i], Stays)]]

\* Round._resolve_moves(): the winner, 0 for (None, None).
RoundResolveMoves(state) ==
    LET move1 == state.fighter1_move
        move2 == state.fighter2_move
    IN IF move1 = move2 THEN 0
       ELSE IF move2 \in MOVE_ADVANTAGES[move1] THEN 1
       ELSE IF move1 \in MOVE_ADVANTAGES[move2] THEN 2
       ELSE 0

\* A pillz that is invoked without effect on the manager.
InvokeNothing(m, i, pillz, choice, winner_id) == m

\* activate(won_round) of a pillz created for this round, then add_effect.
Invoke(m, i, pillz, choice, winner_id) ==
    IF pillz = None THEN m
    ELSE IF ~PillzCanActivate(pillz, winner_id = i) THEN m
    ELSE add_effect([m EXCEPT !.effects = Append(@, initialize_effect(pillz, choice))],
                    i, Len(m.effects) + 1)

\* Round._apply_effects(winner_id): fighter1's pillz, then fighter2's.
_apply_effects(m, state, winner_id, choice) ==
    Invoke(Invoke(m, 1, state.fighter1_pillz, choice[1], winner_id),
           2, state.fighter2_pillz, choice[2], winner_id)

\* The random modifiers get_value() draws a value for when it reads the list.
Undrawn(m, list, stat_type) ==
    {em \in UNION {{<<list[k], j>> : j \in DOMAIN m.effects[list[k]].modifiers} :
                     k \in DOMAIN list} :
        /\ m.effects[em[1]].modifiers[em[2]].stat_type = stat_type
        /\ m.effects[em[1]].modifiers[em[2]].is_random
        /\ m.effects[em[1]].modifiers[em[2]]._cached_random_value = NoValue}

\* The objects after get_value() cached the drawn values.
Draw(m, rolls) ==
    [m EXCEPT !.effects =
        [e \in DOMAIN m.effects |->
            [m.effects[e] EXCEPT !.modifiers =
                [j \in DOMAIN m.effects[e].modifiers |->
                    IF <<e, j>> \in DOMAIN rolls
                    THEN [m.effects[e].modifiers[j] EXCEPT
                              !._cached_random_value = rolls[<<e, j>>]]
                    ELSE m.effects[e].modifiers[j]]]]]

\* StatModifier.get_value() once the random value is cached.
get_value(modifier) ==
    IF ~modifier.is_random THEN modifier.value ELSE modifier._cached_random_value

RECURSIVE ModifiedBy(_, _, _)
\* The inner loop of _calculate_damage over the modifiers of one effect.
ModifiedBy(stat, modifiers, stat_type) ==
    IF modifiers = <<>> THEN stat
    ELSE LET modifier == Head(modifiers)
             next == IF modifier.stat_type # stat_type THEN stat
                     ELSE IF get_value(modifier) = HALF THEN stat \div 2
                     ELSE stat + get_value(modifier)
         IN ModifiedBy(next, Tail(modifiers), stat_type)

RECURSIVE Modified(_, _, _, _)
\* The outer loop of _calculate_damage over the effects of a list, in order.
Modified(stat, m, list, stat_type) ==
    IF list = <<>> THEN stat
    ELSE Modified(ModifiedBy(stat, m.effects[Head(list)].modifiers, stat_type),
                  m, Tail(list), stat_type)

\* _calculate_damage that reads the bare stats, as if no effect were active yet.
RoundCalculateDamageBare(m, f, attacker, defender) ==
    PyRound(f[attacker].damage, f[defender].resistance)

\* Round._calculate_damage(attacker, defender), all values drawn.
RoundCalculateDamage(m, f, attacker, defender) ==
    PyRound(Modified(f[attacker].damage, m, m.active_effects[attacker], "DAMAGE"),
            Modified(f[defender].resistance, m, m.active_effects[defender], "RESISTANCE"))

(***************************************************************************)
(* The "round" program: the loop of main.py.                               *)
(***************************************************************************)
\* The stats entered for Player and for AI: (damage, resistance).
RoundConfigs == {<<<<30, 100>>, <<20, 30>>>>}

\* The moves and the pillz chosen for a round: no pillz, one fighter's pillz,
\* or a pillz each.  set_pillz takes any Pillz object: one of a registered class
\* or a JurassicPillz.
RoundMovePairs == {<<"RUSH", "RUSH">>, <<"RUSH", "STRIKE">>, <<"STRIKE", "RUSH">>}
PillzPicks == {"GODZILLA_CAKE", "SAILOR_MOON", "NORDIC_SHIELD", "JURASSIC"}
PillzPairs ==
    {<<None, None>>} \cup {<<pillz, None>> : pillz \in PillzPicks}
        \cup {<<None, pillz>> : pillz \in PillzPicks}
        \cup {<<"GODZILLA_CAKE", "SAILOR_MOON">>, <<"SAILOR_MOON", "GODZILLA_CAKE">>,
              <<"NORDIC_SHIELD", "JURASSIC">>}
        \cup {<<"APRIL", None>>, <<"ALIEN_ATTACK", None>>, <<None, "GOTHAM">>}

main_max_rounds == 6

NewFighter(name, stats) ==
    [name |-> name, damage |-> stats[1], resistance |-> stats[2], points |-> 0]

InitRound ==
    /\ program = "round"
    /\ \E cfg \in RoundConfigs :
          fighters = [i \in FighterIds |->
                        NewFighter(IF i = 1 THEN "Player" ELSE "AI", cfg[i])]
    /\ round = IdleRound
    /\ effects = <<>>
    /\ active_effects = [i \in FighterIds |-> <<>>]
    /\ pending_effects = [i \in FighterIds |-> <<>>]
    /\ effect_history = <<>>
    /\ core = IdleCore
    /\ next_id = [i \in FighterIds |-> 0]
    /\ battle_state = IdleBattleState
    /\ round_states = <<>>
    /\ returned = <<NoResult, 0, 0>>
    /\ modified_stats = <<>>
    /\ game_round = IdleGameRound
    /\ raised = None
    /\ IdleObjects

\* main.py: Round(player, ai, round_num, effect_manager), set_move for both,
\* set_pillz for the pillz chosen.
StartRound ==
    /\ program = "round"
    /\ round.resolved
    /\ round.round_number < MaxRoundNumber
    /\ \/ round.round_number < main_max_rounds
       \/ fighters[1].points = fighters[2].points
    /\ \E moves \in RoundMovePairs, pillz \in PillzPairs :
          round' = [round_number |-> round.round_number + 1,
                    resolved |-> FALSE,
                    state |-> [fighter1_move |-> moves[1], fighter2_move |-> moves[2],
                               fighter1_pillz |-> pillz[1], fighter2_pillz |-> pillz[2],
                               round_winner |-> None, damage_dealt |-> 0]]
    /\ UNCHANGED <<program, fighters, effects, active_effects, pending_effects,
                   effect_history, battle_vars, game_round, raised, object_vars>>

\* Round.resolve().
Resolve ==
    /\ program \in {"round", "select"}
    /\ ~round.resolved
    /\ round.state.fighter1_move # None /\ round.state.fighter2_move # None
    /\ LET winner_id == RoundResolveMoves(round.state)
           attacker == winner_id
           defender == Other(winner_id)
           Pick(i, pillz) == IF pillz # None /\ PillzCanActivate(pillz, winner_id = i)
                             THEN EffectChoices(pillz) ELSE {1}
       IN \E choice1 \in Pick(1, round.state.fighter1_pillz),
             choice2 \in Pick(2, round.state.fighter2_pillz) :
            LET applied == _apply_effects(Manager, round.state, winner_id,
                                          <<choice1, choice2>>)
            IN IF winner_id = 0
               THEN LET ended == process_round_end(applied, round.round_number)
                    IN /\ round' = [round EXCEPT !.resolved = TRUE]
                       /\ fighters' = fighters
                       /\ effects' = ended.effects
                       /\ active_effects' = ended.active_effects
                       /\ pending_effects' = ended.pending_effects
                       /\ effect_history' = ended.effect_history
               ELSE \E rolls \in
                        [Undrawn(applied, applied.active_effects[attacker], "DAMAGE")
                           \cup Undrawn(applied, applied.active_effects[defender],
                                        "RESISTANCE") -> RandomRolls] :
                      LET drawn == Draw(applied, rolls)
                          damage == RoundCalculateDamage(drawn, fighters,
                                                         attacker, defender)
                          ended == process_round_end(drawn, round.round_number)
                      IN /\ round' = [round EXCEPT
                                         !.resolved = TRUE,
                                         !.state.round_winner = fighters[winner_id].name,
                                         !.state.damage_dealt = damage]
                         /\ fighters' = [fighters EXCEPT ![attacker].points = @ + damage]
                         /\ effects' = ended.effects
                         /\ active_effects' = ended.active_effects
                         /\ pending_effects' = ended.pending_effects
                         /\ effect_history' = ended.effect_history
    /\ raised' = None
    /\ UNCHANGED <<program, battle_vars, game_round, object_vars>>

NextRound == StartRound \/ Resolve

SpecRound == InitRound /\ [][NextRound]_vars

(***************************************************************************)
(* The "select" program: a Round driven call by call, set_move, set_pillz  *)
(* and resolve in any order, as tests/test_game/test_enhanced_round.py     *)
(* does.                                                                   *)
(***************************************************************************)
SelectIds == {"Player", "AI", "Nobody"}
SelectMoves == {"RUSH", "STRIKE"}
SelectPillz == {"GODZILLA_CAKE", "NORDIC_SHIELD"}

\* RoundState(): nothing selected.
NewRound(round_number) ==
    [round_number |-> round_number, resolved |-> FALSE,
     state |-> [fighter1_move |-> None, fighter2_move |-> None,
                fighter1_pillz |-> None, fighter2_pillz |-> None,
                round_winner |-> None, damage_dealt |-> 0]]

\* set_move that records the move of the first fighter whatever the id.
set_move_first(f, r, fighter_id, move) ==
    [round |-> [r EXCEPT !.state.fighter1_move = move], raised |-> None]

\* Round.set_move(fighter_id, move): the state and the exception raised.
set_move(f, r, fighter_id, move) ==
    IF fighter_id = f[1].name
    THEN [round |-> [r EXCEPT !.state.fighter1_move = move], raised |-> None]
    ELSE IF fighter_id = f[2].name
    THEN [round |-> [r EXCEPT !.state.fighter2_move = move], raised |-> None]
    ELSE [round |-> r, raised |-> UnknownFighter]

\* Round.set_pillz(fighter_id, pillz).
set_pillz(f, r, fighter_id, pillz) ==
    IF fighter_id = f[1].name
    THEN [round |-> [r EXCEPT !.state.fighter1_pillz = pillz], raised |-> None]
    ELSE IF fighter_id = f[2].name
    THEN [round |-> [r EXCEPT !.state.fighter2_pillz = pillz], raised |-> None]
    ELSE [round |-> r, raised |-> UnknownFighter]

InitSelect ==
    /\ program = "select"
    /\ \E cfg \in RoundConfigs :
          fighters = [i \in FighterIds |->
                        NewFighter(IF i = 1 THEN "Player" ELSE "AI", cfg[i])]
    /\ round = NewRound(1)
    /\ effects = <<>>
    /\ active_effects = [i \in FighterIds |-> <<>>]
    /\ pending_effects = [i \in FighterIds |-> <<>>]
    /\ effect_history = <<>>
    /\ core = IdleCore
    /\ next_id = [i \in FighterIds |-> 0]
    /\ battle_state = IdleBattleState
    /\ round_states = <<>>
    /\ returned = <<NoResult, 0, 0>>
    /\ modified_stats = <<>>
    /\ game_round = IdleGameRound
    /\ raised = None
    /\ IdleObjects

\* round.set_move(fighter_id, move).
SetMove ==
    /\ program = "select"
    /\ ~round.resolved
    /\ \E fighter_id \in SelectIds, move \in SelectMoves :
          LET call == set_move(fighters, round, fighter_id, move)
          IN /\ round' = call.round
             /\ raised' = call.raised
    /\ UNCHANGED <<program, fighters, effects, active_effects, pending_effects,
                   effect_history, battle_vars, game_round, object_vars>>

\* round.set_pillz(fighter_id, pillz).
SetPillz ==
    /\ program = "select"
    /\ ~round.resolved
    /\ \E fighter_id \in SelectIds, pillz \in SelectPillz :
          LET call == set_pillz(fighters, round, fighter_id, pillz)
          IN /\ round' = call.round
             /\ raised' = call.raised
    /\ UNCHANGED <<program, fighters, effects, active_effects, pending_effects,
                   effect_history, battle_vars, game_round, object_vars>>

\* resolve() that validates the moves after _apply_effects.
ResolveUnsetLate ==
    /\ program = "select"
    /\ ~round.resolved
    /\ ~(round.state.fighter1_move # None /\ round.state.fighter2_move # None)
    /\ LET applied == _apply_effects(Manager, round.state, 0, <<1, 1>>)
       IN /\ effects' = applied.effects
          /\ active_effects' = applied.active_effects
          /\ pending_effects' = applied.pending_effects
    /\ raised' = MovesNotSelected
    /\ UNCHANGED <<program, fighters, round, effect_history, battle_vars, game_round, object_vars>>

\* round.resolve() with a move unset: the ValueError of its first statement.
ResolveUnset ==
    /\ program = "select"
    /\ ~round.resolved
    /\ ~(round.state.fighter1_move # None /\ round.state.fighter2_move # None)
    /\ raised' = MovesNotSelected
    /\ UNCHANGED <<program, fighters, round, effects, active_effects, pending_effects,
                   effect_history, battle_vars, game_round, object_vars>>

\* Round(player, ai, round_number + 1, effect_manager) once the round is resolved.
NextRoundObject ==
    /\ program = "select"
    /\ round.resolved
    /\ round.round_number < MaxRoundNumber
    /\ round' = NewRound(round.round_number + 1)
    /\ raised' = None
    /\ UNCHANGED <<program, fighters, effects, active_effects, pending_effects,
                   effect_history, battle_vars, game_round, object_vars>>

NextSelect == SetMove \/ SetPillz \/ ResolveUnset \/ Resolve \/ NextRoundObject

SpecSelect == InitSelect /\ [][NextSelect]_vars

(***************************************************************************)
(* The "effects" program: the EffectManager and Effect operations called   *)
(* one by one, as the tests of the effects call them.                      *)
(***************************************************************************)
\* The effects handed to add_effect: one CURRENT, one NEXT, one PERMANENT.
EffectPicks == {"JURASSIC", "NORDIC_SHIELD", "GODZILLA_CAKE"}

\* The manager is driven directly in two programs: "effects" without logging,
\* and "log", where log_effect is called too, in one round.
ManagerPrograms == {"effects", "log"}
\* The programs that call the manager after add_effect.
CallerPrograms == ManagerPrograms \cup {"invoke"}
LogPicks == {"JURASSIC", "NORDIC_SHIELD"}
Picks == IF program = "log" THEN LogPicks ELSE EffectPicks

Rounds == 1..MaxRoundNumber

\* The round the calls of the "log" and "invoke" programs are made in.
LogRounds == {1}
CallRounds == IF program \in {"log", "invoke"} THEN LogRounds ELSE Rounds

\* EffectManager.activate_pending_effect(fighter_id, effect): `in` and remove()
\* compare the dataclass fields, and remove() takes the first equal element.
activate_pending_effect(m, fighter_id, effect) ==
    LET pending == m.pending_effects[fighter_id]
        equal == {k \in DOMAIN pending : m.effects[pending[k]] = m.effects[effect]}
    IN IF equal = {} THEN m
       ELSE LET first == CHOOSE k \in equal : \A j \in equal : k <= j
            IN [m EXCEPT !.pending_effects[fighter_id] =
                             [j \in 1..(Len(pending) - 1) |->
                                 IF j < first THEN pending[j] ELSE pending[j + 1]],
                         !.active_effects[fighter_id] = Append(@, effect)]

InitEffects ==
    /\ program = "effects"
    /\ fighters = IdleFighters
    /\ round = IdleRound
    /\ effects = <<>>
    /\ active_effects = [i \in FighterIds |-> <<>>]
    /\ pending_effects = [i \in FighterIds |-> <<>>]
    /\ effect_history = <<>>
    /\ core = IdleCore
    /\ next_id = [i \in FighterIds |-> 0]
    /\ battle_state = IdleBattleState
    /\ round_states = <<>>
    /\ returned = <<NoResult, 0, 0>>
    /\ modified_stats = <<>>
    /\ game_round = IdleGameRound
    /\ raised = None
    /\ IdleObjects

\* manager.add_effect(fighter_id, Effect(...)).
AddEffect ==
    /\ program \in ManagerPrograms
    /\ Len(effects) < MaxEffects
    /\ \E i \in FighterIds, pick \in Picks :
          LET m == add_effect([Manager EXCEPT
                                  !.effects = Append(@, initialize_effect(pick, 1))],
                              i, Len(effects) + 1)
          IN /\ effects' = m.effects
             /\ active_effects' = m.active_effects
             /\ pending_effects' = m.pending_effects
             /\ effect_history' = m.effect_history
    /\ UNCHANGED <<program, fighters, round, battle_vars, game_round, raised, object_vars>>

\* effect.apply(current_round).
ApplyEffect ==
    /\ program \in CallerPrograms
    /\ \E effect \in DOMAIN effects, current_round \in CallRounds :
          effects' = [effects EXCEPT ![effect] = apply(@, current_round)]
    /\ UNCHANGED <<program, fighters, round, active_effects, pending_effects,
                   effect_history, battle_vars, game_round, raised, object_vars>>

\* manager.activate_pending_effect(fighter_id, effect).
ActivatePendingEffect ==
    /\ program \in CallerPrograms
    /\ \E i \in FighterIds, effect \in DOMAIN effects :
          LET m == activate_pending_effect(Manager, i, effect)
          IN /\ active_effects' = m.active_effects
             /\ pending_effects' = m.pending_effects
             /\ effect_history' = m.effect_history
    /\ UNCHANGED <<program, fighters, round, effects, battle_vars, game_round, raised, object_vars>>

\* manager.process_round_end(round_number).
ProcessRoundEnd ==
    /\ program \in CallerPrograms
    /\ \E round_number \in CallRounds :
          LET m == process_round_end(Manager, round_number)
          IN /\ effects' = m.effects
             /\ active_effects' = m.active_effects
             /\ pending_effects' = m.pending_effects
             /\ effect_history' = m.effect_history
    /\ UNCHANGED <<program, fighters, round, battle_vars, game_round, raised, object_vars>>

\* manager.log_effect(round_number, effect, value, stat_type, fighter_id) as
\* the test calls it: for an effect added to the fighter's active list.
LogEffect ==
    /\ program = "log"
    /\ Len(effect_history) < MaxLog
    /\ \E i \in FighterIds, round_number \in CallRounds : \E k \in DOMAIN active_effects[i] :
          LET effect == active_effects[i][k]
              modifier == effects[effect].modifiers[1]
          IN effect_history' =
                log_effect(Manager, round_number, effect,
                           modifier.value, modifier.stat_type, i).effect_history
    /\ UNCHANGED <<program, fighters, round, effects, active_effects, pending_effects,
                   battle_vars, game_round, raised, object_vars>>

NextEffects == AddEffect \/ ApplyEffect \/ ActivatePendingEffect \/ ProcessRoundEnd

SpecEffects == InitEffects /\ [][NextEffects]_vars

\* ---- program "process": process_effects called on lists of PillzEffect ----

\* PillzEffect(name, duration=-1, activation_condition=ALWAYS, effect_type,
\* priority, counters, round_effects={0: values}).
NewPillzEffect(name, effect_type, priority, counters, values, id) ==
    [id |-> id, name |-> name, duration |-> -1, activation_condition |-> "ALWAYS",
     effect_type |-> effect_type, priority |-> priority, permanent_bonus |-> 0,
     counters |-> counters, round_effects |-> (0 :> values)]

\* The effects put in a fighter's active_effects: one of the catalogue, and
\* effects that counter, which the catalogue lacks.
EffectInputs(id) ==
    {get_effect("SOUTH_PACIFIC", 0, id),
     NewPillzEffect("Guard", "RESISTANCE", 2, {},
                    [Neutral EXCEPT !.resistance_multiplier = 2], id),
     NewPillzEffect("Counter", "COUNTER", 2, {"DAMAGE"},
                    [Neutral EXCEPT !.resistance_multiplier = 3], id),
     NewPillzEffect("Breaker", "SKIP", 1, {"COUNTER", "RESISTANCE"},
                    [Neutral EXCEPT !.skip_round = TRUE], id)}

InitProcess ==
    /\ program = "process"
    /\ \E cfg \in FighterConfigs :
          core = [i \in FighterIds |-> NewCoreFighter(cfg.names[i], cfg.stats[i])]
    /\ next_id = [i \in FighterIds |-> 0]
    /\ battle_state = [current_round |-> 1, round_history |-> <<>>,
                       current_round_state |-> 1]
    /\ round_states = <<NewRoundState(1)>>
    /\ returned = <<NoResult, 0, 0>>
    /\ modified_stats = <<>>
    /\ fighters = IdleFighters
    /\ round = IdleRound
    /\ effects = <<>>
    /\ active_effects = [i \in FighterIds |-> <<>>]
    /\ pending_effects = [i \in FighterIds |-> <<>>]
    /\ effect_history = <<>>
    /\ game_round = IdleGameRound
    /\ raised = None
    /\ IdleObjects

\* fighter.active_effects.append(PillzEffect(...)), the lists being built
\* before process_effects is called.
AppendEffect ==
    /\ program = "process"
    /\ modified_stats = <<>>
    /\ \E i \in FighterIds :
          /\ Len(core[i].active_effects) < MaxActive
          /\ \E effect \in EffectInputs(<<i, next_id[i] + 1>>) :
                core' = [core EXCEPT ![i].active_effects = Append(@, effect)]
          /\ next_id' = [next_id EXCEPT ![i] = @ + 1]
    /\ UNCHANGED <<program, battle_state, round_states, returned, modified_stats,
                   round_vars, game_round, raised, object_vars>>

\* modified_stats = effect_manager.process_effects(battle_state).
ProcessEffects ==
    /\ program = "process"
    /\ modified_stats' = process_effects(core, battle_state)
    /\ UNCHANGED <<program, core, next_id, battle_state, round_states, returned,
                   round_vars, game_round, raised, object_vars>>

NextProcess == AppendEffect \/ ProcessEffects

SpecProcess == InitProcess /\ [][NextProcess]_vars

\* ---- program "log": the manager operations and log_effect, called one by one ----

InitLog ==
    /\ program = "log"
    /\ fighters = IdleFighters
    /\ round = IdleRound
    /\ effects = <<>>
    /\ active_effects = [i \in FighterIds |-> <<>>]
    /\ pending_effects = [i \in FighterIds |-> <<>>]
    /\ effect_history = <<>>
    /\ core = IdleCore
    /\ next_id = [i \in FighterIds |-> 0]
    /\ battle_state = IdleBattleState
    /\ round_states = <<>>
    /\ returned = <<NoResult, 0, 0>>
    /\ modified_stats = <<>>
    /\ game_round = IdleGameRound
    /\ raised = None
    /\ IdleObjects

NextLog == AddEffect \/ ApplyEffect \/ ActivatePendingEffect \/ ProcessRoundEnd \/ LogEffect

SpecLog == InitLog /\ [][NextLog]_vars

\* The two programs that drive the manager directly.
InitManager == InitEffects \/ InitLog

NextManager == NextEffects \/ NextLog

SpecManager == InitManager /\ [][NextManager]_vars

(***************************************************************************)
(* The "game" program: game_mechanics.GameRound in the loop of src/main.py.*)
(***************************************************************************)
GameConfigs == {<<<<30, 20>>, <<20, 30>>>>}

\* The damage taken up to the integer above its value.
calculate_effective_damage_above(attacker, defender) ==
    (attacker.damage * (100 - defender.resistance)) \div 100 + 1

\* Fighter.calculate_effective_damage(defender).
calculate_effective_damage(attacker, defender) ==
    PyRound(attacker.damage, defender.resistance)

InitGame ==
    /\ program = "game"
    /\ \E cfg \in GameConfigs :
          fighters = [i \in FighterIds |->
                        NewFighter(IF i = 1 THEN "Player" ELSE "AI", cfg[i])]
    /\ game_round = IdleGameRound
    /\ raised = None
    /\ IdleObjects
    /\ round = IdleRound
    /\ effects = <<>>
    /\ active_effects = [i \in FighterIds |-> <<>>]
    /\ pending_effects = [i \in FighterIds |-> <<>>]
    /\ effect_history = <<>>
    /\ core = IdleCore
    /\ next_id = [i \in FighterIds |-> 0]
    /\ battle_state = IdleBattleState
    /\ round_states = <<>>
    /\ returned = <<NoResult, 0, 0>>
    /\ modified_stats = <<>>

\* One pass of the loop: GameRound(player, ai), the two moves, resolve_round().
ResolveRound ==
    /\ program = "game"
    /\ game_round.round_num < MaxRoundNumber
    /\ \/ game_round.round_num < main_max_rounds
       \/ fighters[1].points = fighters[2].points
    /\ \E move1 \in Moves, move2 \in Moves :
          LET played == [round_num |-> game_round.round_num + 1,
                         move1 |-> move1, move2 |-> move2,
                         outcome |-> "Draw", damage |-> 0]
          IN IF move1 = move2
             THEN /\ game_round' = played
                  /\ fighters' = fighters
             ELSE IF move2 \in MOVE_ADVANTAGES[move1]
             THEN LET damage == calculate_effective_damage(fighters[1], fighters[2])
                  IN /\ fighters' = [fighters EXCEPT ![1].points = @ + damage]
                     /\ game_round' = [played EXCEPT !.outcome = fighters[1].name,
                                                     !.damage = damage]
             ELSE IF move1 \in MOVE_ADVANTAGES[move2]
             THEN LET damage == calculate_effective_damage(fighters[2], fighters[1])
                  IN /\ fighters' = [fighters EXCEPT ![2].points = @ + damage]
                     /\ game_round' = [played EXCEPT !.outcome = fighters[2].name,
                                                     !.damage = damage]
             ELSE /\ game_round' = [played EXCEPT !.outcome = "No advantage"]
                  /\ fighters' = fighters
    /\ raised' = None
    /\ UNCHANGED <<program, round, effects, active_effects, pending_effects,
                   effect_history, battle_vars, object_vars>>

\* resolve_round() of a GameRound with a move unset: the ValueError of its
\* first statement.
ResolveRoundUnset ==
    /\ program = "game"
    /\ \E move1 \in Moves \cup {None}, move2 \in Moves \cup {None} :
          /\ move1 = None \/ move2 = None
          /\ game_round' = [game_round EXCEPT !.move1 = move1, !.move2 = move2]
    /\ raised' = MovesNotSet
    /\ UNCHANGED <<program, fighters, round, effects, active_effects, pending_effects,
                   effect_history, battle_vars, object_vars>>

NextGame == ResolveRound \/ ResolveRoundUnset

SpecGame == InitGame /\ [][NextGame]_vars

(***************************************************************************)
(* Any of the programs.                                                    *)
(***************************************************************************)
(***************************************************************************)
(* The "create" program: Fighter objects constructed one by one.           *)
(***************************************************************************)
InvalidStats == "ValueError: Damage and Resistance must be between 0 and 100"

\* The damage and resistance values handed to Fighter().
StatInputs == {0 - 1, 0, 50, 100, 101}

\* validate_stats that looks at the damage only.
validate_stats_damage(damage, resistance) == 0 <= damage /\ damage <= 100

\* Fighter.validate_stats: TRUE when it returns, FALSE when it raises.
validate_stats(damage, resistance) ==
    /\ 0 <= damage /\ damage <= 100
    /\ 0 <= resistance /\ resistance <= 100

\* Fighter(name, damage, resistance): the object constructed, None when the
\* constructor raised, and the exception.
Fighter(name, damage, resistance) ==
    IF validate_stats(damage, resistance)
    THEN [fighter |-> NewFighter(name, <<damage, resistance>>), raised |-> None]
    ELSE [fighter |-> None, raised |-> InvalidStats]

InitCreate ==
    /\ program = "create"
    /\ fighters = IdleFighters
    /\ round = IdleRound
    /\ effects = <<>>
    /\ active_effects = [i \in FighterIds |-> <<>>]
    /\ pending_effects = [i \in FighterIds |-> <<>>]
    /\ effect_history = <<>>
    /\ core = IdleCore
    /\ next_id = [i \in FighterIds |-> 0]
    /\ battle_state = IdleBattleState
    /\ round_states = <<>>
    /\ returned = <<NoResult, 0, 0>>
    /\ modified_stats = <<>>
    /\ game_round = IdleGameRound
    /\ raised = None
    /\ IdleObjects

\* player = Fighter("Player", damage, resistance) or ai = Fighter("AI", ...):
\* the variable is bound only when the constructor returns.
CreateFighter ==
    /\ program = "create"
    /\ \E i \in FighterIds, damage \in StatInputs, resistance \in StatInputs :
          LET call == Fighter(IF i = 1 THEN "Player" ELSE "AI", damage, resistance)
          IN /\ raised' = call.raised
             /\ fighters' = IF call.raised = None
                            THEN [fighters EXCEPT ![i] = call.fighter]
                            ELSE fighters
    /\ UNCHANGED <<program, round, effects, active_effects, pending_effects,
                   effect_history, battle_vars, game_round, object_vars>>

\* ai_pillz = get_ai_pillz(): a pillz of a type chosen from list(PillzType), or
\* None; the variable is bound only when create_pillz returns.
GetAiPillz ==
    /\ program = "create"
    /\ \E use \in BOOLEAN, pillz_type \in PillzType :
          IF ~use
          THEN ai_pillz' = NoPillz /\ raised' = None
          ELSE LET call == create_pillz(pillz_type)
               IN /\ raised' = call.raised
                  /\ ai_pillz' = IF call.raised = None THEN call.pillz ELSE ai_pillz
    /\ UNCHANGED <<program, round_vars, battle_vars, game_round, stat_modifier, got, simulate_vars>>

NextCreate == CreateFighter \/ GetAiPillz

SpecCreate == InitCreate /\ [][NextCreate]_vars

(***************************************************************************)
(* The "modifier" program: one StatModifier object and the calls of its    *)
(* two methods.                                                            *)
(***************************************************************************)
\* An EffectValue: an int, or the literal "HALF".
IntValue(n) == [int |-> TRUE, n |-> n]
HalfValue == [int |-> FALSE, n |-> 0]

\* StatModifier(stat_type, value, is_random); the stat_type is not read by
\* the methods.
StatModifier(value, is_random) ==
    [value |-> value, is_random |-> is_random,
     _cached_random_value |-> NoValue, _testing_mode |-> FALSE]

\* The upper bound get_value() passes to random.randint.
RandomBound(m) == IF m.value.int THEN m.value.n ELSE 10

\* get_value() that draws a value on every call.
get_value_redraw(m, roll) ==
    IF ~m.is_random
    THEN [returns |-> IF m.value.int THEN m.value.n ELSE HALF, modifier |-> m]
    ELSE [returns |-> roll, modifier |-> [m EXCEPT !._cached_random_value = roll]]

\* StatModifier.get_value() where random.randint returns roll: the value
\* returned and the object afterwards.
call_get_value(m, roll) ==
    IF ~m.is_random
    THEN [returns |-> IF m.value.int THEN m.value.n ELSE HALF, modifier |-> m]
    ELSE IF m._testing_mode
    THEN [returns |-> roll, modifier |-> m]
    ELSE IF m._cached_random_value = NoValue
    THEN [returns |-> roll, modifier |-> [m EXCEPT !._cached_random_value = roll]]
    ELSE [returns |-> m._cached_random_value, modifier |-> m]

\* StatModifier.set_testing_mode(enabled).
set_testing_mode(m, enabled) ==
    [m EXCEPT !._testing_mode = enabled,
              !._cached_random_value = IF enabled THEN NoValue ELSE @]

\* The modifiers constructed: random with the bounds 10 and 3, fixed 10, HALF,
\* and random with the value "HALF".
ModifierInputs ==
    {StatModifier(IntValue(10), TRUE), StatModifier(IntValue(3), TRUE),
     StatModifier(IntValue(10), FALSE), StatModifier(HalfValue, FALSE),
     StatModifier(HalfValue, TRUE)}

InitModifier ==
    /\ program = "modifier"
    /\ stat_modifier \in ModifierInputs
    /\ got = 0
    /\ ai_pillz = NoPillz
    /\ IdleSimulate
    /\ fighters = IdleFighters
    /\ round = IdleRound
    /\ effects = <<>>
    /\ active_effects = [i \in FighterIds |-> <<>>]
    /\ pending_effects = [i \in FighterIds |-> <<>>]
    /\ effect_history = <<>>
    /\ core = IdleCore
    /\ next_id = [i \in FighterIds |-> 0]
    /\ battle_state = IdleBattleState
    /\ round_states = <<>>
    /\ returned = <<NoResult, 0, 0>>
    /\ modified_stats = <<>>
    /\ game_round = IdleGameRound
    /\ raised = None

\* got = modifier.get_value().
GetValue ==
    /\ program = "modifier"
    /\ \E roll \in 1..RandomBound(stat_modifier) :
          LET call == call_get_value(stat_modifier, roll)
          IN /\ got' = call.returns
             /\ stat_modifier' = call.modifier
    /\ UNCHANGED <<program, round_vars, battle_vars, game_round, raised, ai_pillz, simulate_vars>>

\* modifier.set_testing_mode(enabled).
SetTestingMode ==
    /\ program = "modifier"
    /\ \E enabled \in BOOLEAN : stat_modifier' = set_testing_mode(stat_modifier, enabled)
    /\ UNCHANGED <<program, round_vars, battle_vars, game_round, raised, ai_pillz, got, simulate_vars>>

NextModifier == GetValue \/ SetTestingMode

SpecModifier == InitModifier /\ [][NextModifier]_vars

(***************************************************************************)
(* The "invoke" program: a caller that keeps a Pillz object and invokes it *)
(* in more than one round, between the calls of the manager.               *)
(***************************************************************************)
MaxHeld == 3        \* effects in the lists of the manager, both fighters together

\* The pillz the caller holds: one of the factory and a JurassicPillz().
InvokePicks == {"SOUTH_PACIFIC", "JURASSIC"}

\* The classes that inherit Pillz.activate; every other class overrides it.
InheritActivate == {"SOUTH_PACIFIC"}

\* pillz.activate(won_round) on the effects created so far: the pillz and the
\* effects afterwards, and the effect returned, NoEffect for None.  The
\* inherited method initializes an effect only while _effect is None; the
\* overriding ones initialize one on every call.
activate(p, won_round, created) ==
    IF ~PillzCanActivate(p.type, won_round)
    THEN [pillz |-> p, effects |-> created, returns |-> NoEffect]
    ELSE IF p.type \in InheritActivate /\ p._effect # NoEffect
    THEN [pillz |-> p, effects |-> created, returns |-> p._effect]
    ELSE [pillz |-> [p EXCEPT !._effect = Len(created) + 1],
          effects |-> Append(created, initialize_effect(p.type, 1)),
          returns |-> Len(created) + 1]

InitInvoke ==
    /\ program = "invoke"
    /\ fighters = IdleFighters
    /\ round = IdleRound
    /\ effects = <<>>
    /\ active_effects = [i \in FighterIds |-> <<>>]
    /\ pending_effects = [i \in FighterIds |-> <<>>]
    /\ effect_history = <<>>
    /\ core = IdleCore
    /\ next_id = [i \in FighterIds |-> 0]
    /\ battle_state = IdleBattleState
    /\ round_states = <<>>
    /\ returned = <<NoResult, 0, 0>>
    /\ modified_stats = <<>>
    /\ game_round = IdleGameRound
    /\ raised = None
    /\ IdleObjects

\* pillz = PillzFactory.create_pillz(pillz_type), or pillz = JurassicPillz().
CreatePillz ==
    /\ program = "invoke"
    /\ \E pillz_type \in InvokePicks :
          ai_pillz' = IF pillz_type \in _pillz_registry
                      THEN create_pillz(pillz_type).pillz
                      ELSE NewPillz(pillz_type)
    /\ UNCHANGED <<program, round_vars, battle_vars, game_round, raised,
                   stat_modifier, got, simulate_vars>>

\* Round._apply_effects for the fighter that holds the pillz:
\* effect = pillz.activate(won_round), then add_effect(fighter_id, effect).
ActivatePillz ==
    /\ program = "invoke"
    /\ ai_pillz # NoPillz
    /\ Len(active_effects[1]) + Len(active_effects[2])
          + Len(pending_effects[1]) + Len(pending_effects[2]) < MaxHeld
    /\ \E i \in FighterIds, won_round \in BOOLEAN :
          LET call == activate(ai_pillz, won_round, effects)
              m == IF call.returns = NoEffect THEN Manager
                   ELSE add_effect([Manager EXCEPT !.effects = call.effects],
                                   i, call.returns)
          IN /\ Len(call.effects) <= MaxEffects
             /\ ai_pillz' = call.pillz
             /\ effects' = call.effects
             /\ active_effects' = m.active_effects
             /\ pending_effects' = m.pending_effects
    /\ UNCHANGED <<program, fighters, round, effect_history, battle_vars, game_round,
                   raised, stat_modifier, got, simulate_vars>>

NextInvoke ==
    \/ CreatePillz \/ ActivatePillz
    \/ ApplyEffect \/ ActivatePendingEffect \/ ProcessRoundEnd

SpecInvoke == InitInvoke /\ [][NextInvoke]_vars

\* ---- program "simulate": BattleSystem.simulate_single_battle ----

\* BattleState.advance_round() that refuses one round early.
advance_round_early(bs, rs) ==
    IF bs.current_round >= max_rounds - 1
    THEN [returns |-> FALSE, battle_state |-> bs, round_states |-> rs]
    ELSE [returns |-> TRUE,
          battle_state |-> [bs EXCEPT !.current_round = @ + 1,
                                      !.current_round_state = Len(rs) + 1],
          round_states |-> Append(rs, NewRoundState(bs.current_round + 1))]

\* BattleState.advance_round(): what it returns and the state it leaves.
advance_round(bs, rs) ==
    IF bs.current_round >= max_rounds
    THEN [returns |-> FALSE, battle_state |-> bs, round_states |-> rs]
    ELSE [returns |-> TRUE,
          battle_state |-> [bs EXCEPT !.current_round = @ + 1,
                                      !.current_round_state = Len(rs) + 1],
          round_states |-> Append(rs, NewRoundState(bs.current_round + 1))]

\* battle_state = BattleState(fighter1, fighter2); battle_log = [].
InitSimulate ==
    /\ program = "simulate"
    /\ \E cfg \in FighterConfigs :
          core = [i \in FighterIds |-> NewCoreFighter(cfg.names[i], cfg.stats[i])]
    /\ next_id = [i \in FighterIds |-> 0]
    /\ battle_state = [current_round |-> 1, round_history |-> <<>>,
                       current_round_state |-> 1]
    /\ round_states = <<NewRoundState(1)>>
    /\ returned = <<NoResult, 0, 0>>
    /\ modified_stats = <<>>
    /\ fighters = IdleFighters
    /\ round = IdleRound
    /\ effects = <<>>
    /\ active_effects = [i \in FighterIds |-> <<>>]
    /\ pending_effects = [i \in FighterIds |-> <<>>]
    /\ effect_history = <<>>
    /\ game_round = IdleGameRound
    /\ raised = None
    /\ ai_pillz = NoPillz
    /\ stat_modifier = NoModifier
    /\ got = 0
    /\ battle_log = <<>>
    /\ pc = "process_round"

\* The loop body up to the log: two random moves, process_round, and the
\* entry appended to battle_log.
SimulateRound ==
    /\ program = "simulate"
    /\ pc = "process_round"
    /\ \E moves \in MovePairs :
         LET move1 == moves[1]
             move2 == moves[2]
             cur == battle_state.current_round_state
             out == RoundOutcome(core, battle_state, move1, move2)
             scored == [i \in FighterIds |->
                          [core[i] EXCEPT !.score = @ + out[i + 1]]]
             recorded == [round_states EXCEPT
                             ![cur].fighter1_move = move1,
                             ![cur].fighter2_move = move2,
                             ![cur].result = out[1],
                             ![cur].points_gained1 = out[2],
                             ![cur].points_gained2 = out[3]]
             bs == [battle_state EXCEPT !.round_history = Append(@, cur)]
         IN /\ round_states' = recorded
            /\ battle_state' = bs
            /\ core' = [i \in FighterIds |->
                          update_effects(scored[i], bs.current_round,
                                         get_round_result_for_fighter(bs, recorded, i))]
            /\ returned' = out
            /\ battle_log' = Append(battle_log,
                                [round |-> bs.current_round,
                                 move1 |-> move1, move2 |-> move2,
                                 fighter1_effect |-> recorded[cur].fighter1_effect,
                                 fighter2_effect |-> recorded[cur].fighter2_effect,
                                 result |-> out[1],
                                 fighter1_score |-> scored[1].score,
                                 fighter2_score |-> scored[2].score,
                                 points_gained1 |-> out[2],
                                 points_gained2 |-> out[3]])
    /\ pc' = "advance_round"
    /\ UNCHANGED <<program, next_id, modified_stats, round_vars, game_round, raised,
                   ai_pillz, stat_modifier, got>>

\* if not battle_state.advance_round(): break, and the log is returned.
SimulateAdvance ==
    /\ program = "simulate"
    /\ pc = "advance_round"
    /\ LET call == advance_round(battle_state, round_states)
       IN /\ battle_state' = call.battle_state
          /\ round_states' = call.round_states
          /\ pc' = IF call.returns THEN "process_round" ELSE "return"
    /\ UNCHANGED <<program, core, next_id, returned, modified_stats, round_vars,
                   game_round, raised, ai_pillz, stat_modifier, got, battle_log>>

NextSimulate == SimulateRound \/ SimulateAdvance

SpecSimulate == InitSimulate /\ [][NextSimulate]_vars

\* The loop is sequential code of one thread: a step that can be taken is taken.
SpecSimulateFair == SpecSimulate /\ WF_vars(NextSimulate)

Init ==
    \/ InitBattle \/ InitProcess \/ InitRound \/ InitSelect
    \/ InitEffects \/ InitLog \/ InitGame \/ InitCreate
    \/ InitModifier \/ InitInvoke \/ InitSimulate

Next ==
    \/ NextBattle \/ NextProcess \/ NextRound \/ NextSelect
    \/ NextEffects \/ NextLog \/ NextGame \/ NextCreate
    \/ NextModifier \/ NextInvoke \/ NextSimulate

Spec == Init /\ [][Next]_vars

\* The three programs that play rounds of moves.
InitRounds == InitBattle \/ InitRound \/ InitGame

NextRounds == NextBattle \/ NextRound \/ NextGame

SpecRounds == InitRounds /\ [][NextRounds]_vars

(***************************************************************************)
(* Properties of the "battle" program.                                     *)
(***************************************************************************)
\* The current RoundState has been processed and the next round not begun.
Processed ==
    /\ program = "battle"
    /\ \E k \in DOMAIN battle_state.round_history :
          battle_state.round_history[k] = battle_state.current_round_state

IsWin(result, name) == result = Wins(name) \/ result = WinsSkipped(name)

\* C1: process_round returns points1 >= 0 and points2 >= 0 for all fighters,
\* effects and moves; when the defender's total resistance times its
\* resistance multiplier exceeds 100 the winner's points are 0.
C1_PointsNeverNegative ==
    [][ProcessRound =>
         LET stats == process_effects(core, battle_state)
         IN /\ returned'[2] >= 0
            /\ returned'[3] >= 0
            /\ \A w \in FighterIds :
                  (/\ IsWin(returned'[1], core[w].name)
                   /\ get_total_resistance(core[Other(w)])
                        * stats[Other(w)].resistance_multiplier > Hundred)
                  => returned'[w + 1] = 0]_vars

\* C1 witness: a round was won by a fighter with positive damage against a total
\* resistance above 100, and the points returned are 0.
C1_Witness ==
    /\ Processed
    /\ \E w \in FighterIds :
          /\ IsWin(returned[1], core[w].name)
          /\ get_total_damage(core[w]) > 0
          /\ get_total_resistance(core[Other(w)]) > Hundred
          /\ returned[w + 1] = 0

\* C4: process_round changes at most one score: the winner's grows by the
\* returned points, the loser's is unchanged, and a draw, a 'No effect' or a
\* mutual skip returns 0 and 0 and changes no score.
C4_OnlyWinnerScores ==
    [][ProcessRound =>
         /\ \A i \in FighterIds : core'[i].score = core[i].score + returned'[i + 1]
         /\ ~(core'[1].score # core[1].score /\ core'[2].score # core[2].score)
         /\ \A w \in FighterIds :
               IsWin(returned'[1], core[w].name)
               => /\ returned'[Other(w) + 1] = 0
                  /\ core'[Other(w)].score = core[Other(w)].score
         /\ returned'[1] \in {Fixed("Draw"), Fixed("No effect"),
                              Fixed("Both fighters skip (Pillz effect)")}
            => /\ returned'[2] = 0 /\ returned'[3] = 0
               /\ \A i \in FighterIds : core'[i].score = core[i].score
         /\ \/ \E w \in FighterIds : IsWin(returned'[1], core[w].name)
            \/ returned'[1] \in {Fixed("Draw"), Fixed("No effect"),
                                 Fixed("Both fighters skip (Pillz effect)")}]_vars

\* C4 witness: fighter1 won on moves with positive points, now part of its score,
\* while fighter2 still has the score 0.
C4_Witness ==
    /\ Processed
    /\ returned[1] = Wins(core[1].name)
    /\ returned[2] > 0
    /\ core[1].score >= returned[2]
    /\ core[2].score = 0

\* C5: if both aggregated skip_round flags are true the round awards 0 to both;
\* if exactly one is true the other fighter wins and gets the damage-formula
\* points, the skipping fighter gets 0, whatever the two moves are.
C5_SkipOverride ==
    [][ProcessRound =>
         LET stats == process_effects(core, battle_state)
             cur == battle_state.current_round_state
         IN /\ (stats[1].skip_round /\ stats[2].skip_round)
               => /\ returned'[2] = 0 /\ returned'[3] = 0
                  /\ ~\E w \in FighterIds : IsWin(returned'[1], core[w].name)
            /\ \A i \in FighterIds :
                  (stats[i].skip_round /\ ~stats[Other(i)].skip_round)
                  => /\ returned'[1] = WinsSkipped(core[Other(i)].name)
                     /\ returned'[i + 1] = 0
                     /\ returned'[Other(i) + 1] =
                          Max(0, get_total_damage(core[Other(i)])
                                   * stats[Other(i)].damage_multiplier
                                   * (Hundred - get_total_resistance(core[i])
                                                  * stats[i].resistance_multiplier))
                     /\ round_states'[cur].result = returned'[1]]_vars

\* C5 witness: fighter1 played Rush against Strike, which Rush beats, yet
\* fighter2 won with positive points because fighter1 skipped.
C5_Witness ==
    /\ Processed
    /\ LET rs == round_states[battle_state.current_round_state]
       IN /\ rs.fighter1_move = "Rush"
          /\ rs.fighter2_move = "Strike"
          /\ rs.result = WinsSkipped(core[2].name)
          /\ rs.points_gained2 > 0
          /\ rs.points_gained1 = 0

\* C5 witness of the mutual skip: both fighters skipped a round of unequal moves.
C5_WitnessBoth ==
    /\ Processed
    /\ LET rs == round_states[battle_state.current_round_state]
       IN /\ rs.fighter1_move # rs.fighter2_move
          /\ rs.result = Fixed("Both fighters skip (Pillz effect)")

(***************************************************************************)
(* Properties of the "round" program.                                      *)
(***************************************************************************)
\* The winner Round.resolve recorded, 0 for None.
Winner(r) ==
    IF r.state.round_winner = fighters[1].name THEN 1
    ELSE IF r.state.round_winner = fighters[2].name THEN 2
    ELSE 0

Resolved == program = "round" /\ round.resolved /\ round.round_number > 0

\* C2: over any sequence of Round.resolve calls no fighter's points decrease
\* and damage_dealt is never negative.
C2_PointsNeverDecrease ==
    [][Resolve => /\ \A i \in FighterIds : fighters'[i].points >= fighters[i].points
                  /\ round'.state.damage_dealt >= 0]_vars

C8_PendingPromoted ==
    [][Resolve =>
         \A i \in FighterIds : \A k \in DOMAIN pending_effects'[i] :
             ~EffectCanActivate(effects'[pending_effects'[i][k]],
                                RoundResolveMoves(round.state) = i)]_vars

\* C10: a CURRENT effect added to an active set during round r is gone from it
\* after the expiry step of round r, with which resolve() ends.
C10_CurrentExpires ==
    [][Resolve =>
         \A i \in FighterIds : \A k \in DOMAIN active_effects'[i] :
             effects'[active_effects'[i][k]].duration # "CURRENT"]_vars

(***************************************************************************)
(* Properties of the "effects" program.                                    *)
(***************************************************************************)
\* C9: apply(r) makes the effect active with applied_at_round = r and sets
\* expires_at_round to r for CURRENT, to r + 1 for NEXT, to no value for PERMANENT.
C9_ApplySetsExpiry ==
    \A e \in DOMAIN effects :
        effects[e].is_active
        => /\ effects[e].applied_at_round # NoRound
           /\ effects[e].duration = "CURRENT"
              => effects[e].expires_at_round = effects[e].applied_at_round
           /\ effects[e].duration = "NEXT"
              => effects[e].expires_at_round = effects[e].applied_at_round + 1
           /\ effects[e].duration = "PERMANENT"
              => effects[e].expires_at_round = NoRound

(***************************************************************************)
(* Properties of all the programs.                                         *)
(***************************************************************************)
\* C3: with no effects active on either fighter, when fighter A's move beats
\* fighter B's, the round awards A exactly A.damage * (1 - B.resistance / 100)
\* points and B none: exactly in process_round (in hundredths here), as the
\* nearest integer in Round.resolve and in GameRound.resolve_round.
C3_BaseDamage ==
    [][/\ ProcessRound =>
            \A w \in FighterIds :
               LET l == Other(w)
                   rs == round_states'[battle_state.current_round_state]
                   moves == <<rs.fighter1_move, rs.fighter2_move>>
               IN (/\ core[1].active_effects = <<>> /\ core[2].active_effects = <<>>
                   /\ does_move_win(moves[w], moves[l]))
                  => /\ returned'[1] = Wins(core[w].name)
                     /\ returned'[w + 1] = core[w].damage * (Hundred - core[l].resistance)
                     /\ returned'[l + 1] = 0
                     /\ core'[w].score = core[w].score + returned'[w + 1]
                     /\ core'[l].score = core[l].score
       /\ Resolve =>
            \A w \in FighterIds :
               LET l == Other(w)
                   moves == <<round.state.fighter1_move, round.state.fighter2_move>>
               IN (/\ \A i \in FighterIds : active_effects[i] = <<>>
                   /\ \A i \in FighterIds : active_effects'[i] = <<>>
                   /\ moves[l] \in MOVE_ADVANTAGES[moves[w]])
                  => /\ round'.state.round_winner = fighters[w].name
                     /\ Hundred * round'.state.damage_dealt
                          - fighters[w].damage * (Hundred - fighters[l].resistance)
                        \in -50..50
                     /\ fighters'[w].points = fighters[w].points
                                                + round'.state.damage_dealt
                     /\ fighters'[l].points = fighters[l].points
       /\ ResolveRound =>
            \A w \in FighterIds :
               LET l == Other(w)
                   moves == <<game_round'.move1, game_round'.move2>>
               IN moves[l] \in MOVE_ADVANTAGES[moves[w]]
                  => /\ game_round'.outcome = fighters[w].name
                     /\ Hundred * game_round'.damage
                          - fighters[w].damage * (Hundred - fighters[l].resistance)
                        \in -50..50
                     /\ fighters'[w].points = fighters[w].points + game_round'.damage
                     /\ fighters'[l].points = fighters[l].points]_vars

\* C3 witness: process_round awarded fighter1 (damage 30) exactly 21 points, 2100
\* hundredths, for a winning move against resistance 30 with no pillz taken.
C3_Witness ==
    /\ Processed
    /\ next_id[1] = 0 /\ next_id[2] = 0
    /\ core[1].damage = 30 /\ core[2].resistance = 30
    /\ returned = <<Wins(core[1].name), 2100, 0>>
    /\ core[1].score = 2100 /\ core[2].score = 0

\* The same 21 points awarded by Round.resolve.
C3_WitnessRound ==
    /\ Resolved
    /\ effects = <<>>
    /\ Winner(round) = 1
    /\ round.state.damage_dealt = 21
    /\ fighters[1].points = 21 /\ fighters[2].points = 0

\* The same 21 points awarded by GameRound.resolve_round, and the 16 of the test.
C3_WitnessGame ==
    /\ program = "game"
    /\ game_round.round_num = 2
    /\ fighters[1].points = 21 /\ fighters[2].points = 16

Beaten(table, moves, m) == {n \in moves : m \in table[n]}

\* Each move beats 2 moves and is beaten by the 2 others.
Circular(table, moves) ==
    /\ Cardinality(moves) = 5
    /\ DOMAIN table = moves
    /\ \A m \in moves :
          /\ Cardinality(table[m]) = 2
          /\ Cardinality(Beaten(table, moves, m)) = 2
          /\ table[m] \cap Beaten(table, moves, m) = {}
          /\ m \notin table[m] \cup Beaten(table, moves, m)
          /\ table[m] \cup Beaten(table, moves, m) = moves \ {m}
          /\ table[m] # moves \ {m}
          /\ Beaten(table, moves, m) # {}

\* C6: in MOVE_ADVANTAGES and in move_relationships, for each of the five moves
\* the moves it beats and the moves that beat it are 2 each, disjoint, without the
\* move itself and together the other 4; so no round of unequal moves is left
\* without a winner.
C6_MoveTables ==
    /\ Circular(MOVE_ADVANTAGES, Moves)
    /\ Circular(move_relationships, MoveNames)
    /\ returned[1] # Fixed("No effect")
    /\ game_round.outcome # "No advantage"
    /\ (program = "round" /\ round.resolved /\ round.round_number > 0
        /\ round.state.fighter1_move # round.state.fighter2_move)
       => round.state.round_winner # None

\* C6 witness: GRAPPLE against GUARD, and Player won the round with GRAPPLE.
C6_Witness ==
    /\ program = "game"
    /\ game_round.move1 = "GRAPPLE"
    /\ game_round.move2 = "GUARD"
    /\ game_round.outcome = fighters[1].name
    /\ fighters[1].points > 0

(***************************************************************************)
(* C11..C20                                                                *)
(***************************************************************************)
Holds(list, effect) == \E k \in DOMAIN list : list[k] = effect

IsPermanent(effect) == effects[effect].duration = "PERMANENT"

\* C11: a PERMANENT effect that is in a fighter's active list is still in it
\* after every step (process_round_end for any round number included), applied
\* or not, and no pending list ever holds a PERMANENT effect.
C11_PermanentStays ==
    /\ [][\A i \in FighterIds : \A effect \in DOMAIN effects :
             IsPermanent(effect) /\ Holds(active_effects[i], effect)
                 => Holds(active_effects'[i], effect)]_vars
    /\ [](\A i \in FighterIds : \A effect \in DOMAIN effects :
             IsPermanent(effect) => ~Holds(pending_effects[i], effect))

\* A CURRENT effect was expired by process_round_end in the round in which an
\* applied PERMANENT effect of the same fighter list was applied; an un-applied
\* PERMANENT effect is active too.
C11_Witness ==
    /\ program = "effects"
    /\ \E i \in FighterIds : \E p, c \in DOMAIN effects :
          /\ IsPermanent(p) /\ effects[p].is_active /\ Holds(active_effects[i], p)
          /\ effects[c].duration = "CURRENT" /\ effects[c].is_active
          /\ effects[c].expires_at_round = effects[p].applied_at_round
          /\ \A j \in FighterIds : ~Holds(active_effects[j], c)

\* C12: add_effect appends a CURRENT or PERMANENT effect to the end of the given
\* fighter's active list and a NEXT effect to the end of that fighter's pending
\* list; the other list of that fighter, both lists of the other fighter and
\* the history are unchanged.
C12_AddEffectAppends ==
    [][AddEffect =>
          \E i \in FighterIds :
             LET effect == Len(effects')
                 to_active == effects'[effect].duration \in {"CURRENT", "PERMANENT"}
                 to_pending == effects'[effect].duration = "NEXT"
             IN /\ to_active \/ to_pending
                /\ active_effects'[i] =
                      IF to_active THEN Append(active_effects[i], effect)
                      ELSE active_effects[i]
                /\ pending_effects'[i] =
                      IF to_pending THEN Append(pending_effects[i], effect)
                      ELSE pending_effects[i]
                /\ active_effects'[Other(i)] = active_effects[Other(i)]
                /\ pending_effects'[Other(i)] = pending_effects[Other(i)]
                /\ effect_history' = effect_history]_vars

\* add_effect calls in a behaviour that logs an entry: two effects are held and
\* the history has an entry.
C12_Witness ==
    /\ program = "log"
    /\ effect_history # <<>>
    /\ \E i \in FighterIds : Len(active_effects[i]) >= 2

\* A fighter with an effect added to the pending list after one was added to
\* the active list, the other fighter's lists empty.
C12_WitnessPending ==
    /\ program = "effects"
    /\ \E i \in FighterIds :
          /\ active_effects[i] = <<1>> /\ pending_effects[i] = <<2>>
          /\ active_effects[Other(i)] = <<>> /\ pending_effects[Other(i)] = <<>>

\* C13: every effect held in an active list has been applied (is_active, with
\* an applied_at_round) and no effect held in a pending list has been applied.
C13_ActiveApplied ==
    program = "round" =>
        \A i \in FighterIds :
           /\ \A k \in DOMAIN active_effects[i] :
                 /\ effects[active_effects[i][k]].is_active
                 /\ effects[active_effects[i][k]].applied_at_round # NoRound
           /\ \A k \in DOMAIN pending_effects[i] :
                 ~effects[pending_effects[i][k]].is_active

\* The effects a fighter holds, active or pending.
Held(i) ==
    {active_effects[i][k] : k \in DOMAIN active_effects[i]}
        \cup {pending_effects[i][k] : k \in DOMAIN pending_effects[i]}

\* The outcome of the resolved round for fighter i.
Outcome(i) ==
    LET winner_id == RoundResolveMoves(round.state)
    IN IF winner_id = i THEN "WIN" ELSE IF winner_id = Other(i) THEN "LOSE" ELSE "DRAW"

\* C14: with won_round as Round._apply_effects reports it, Effect.can_activate
\* is true for ANY on every outcome, for WIN_ONLY exactly when the owner won
\* and for LOSE_ONLY exactly when the owner lost; on a drawn round WIN_ONLY and
\* LOSE_ONLY are both false.
C14_CanActivate ==
    program = "round" /\ round.resolved /\ round.round_number > 0 =>
        \A i \in FighterIds : \A effect \in Held(i) :
            EffectCanActivate(effects[effect], RoundResolveMoves(round.state) = i)
                = \/ effects[effect].activation = "ANY"
                  \/ effects[effect].activation = "WIN_ONLY" /\ Outcome(i) = "WIN"
                  \/ effects[effect].activation = "LOSE_ONLY" /\ Outcome(i) = "LOSE"

\* The pillz fighter i set for the round.
PillzOf(i) == IF i = 1 THEN round.state.fighter1_pillz ELSE round.state.fighter2_pillz

\* C15: in resolve() a pillz gated LOSE_MOVE_ONLY adds an effect exactly when its
\* invoker's move lost, one gated WIN_MOVE_ONLY exactly when it won, and one
\* gated ANY_MOVE always; on a drawn round a gated pillz adds nothing to the
\* active or pending lists.
C15_PillzGating ==
    [][Resolve =>
         \A i \in FighterIds :
            PillzOf(i) # None =>
               LET added == \E effect \in (Len(effects) + 1)..Len(effects') :
                               \/ Holds(active_effects'[i], effect)
                               \/ Holds(pending_effects'[i], effect)
                   gate == activation_type(PillzOf(i))
               IN added <=> \/ gate = "ANY_MOVE"
                            \/ gate = "WIN_MOVE_ONLY" /\ Outcome(i) = "WIN"
                            \/ gate = "LOSE_MOVE_ONLY" /\ Outcome(i) = "LOSE"]_vars

\* C16: an effect that resolve() adds to an active list has passed its own
\* activation condition for the outcome of that round: a LOSE_ONLY effect is
\* not added to it for a fighter who won the round, nor a WIN_ONLY effect for
\* one who lost it.
C16_EffectConditionPassed ==
    [][Resolve =>
         \A i \in FighterIds : \A effect \in (Len(effects) + 1)..Len(effects') :
            Holds(active_effects'[i], effect) =>
               /\ effects'[effect].activation = "LOSE_ONLY" => Outcome(i) # "WIN"
               /\ effects'[effect].activation = "WIN_ONLY" => Outcome(i) # "LOSE"]_vars

(***************************************************************************)
(* Properties of process_effects (the "process" program).                  *)
(***************************************************************************)
\* fighter i without the k-th effect of its active_effects.
Without(c, i, k) ==
    [c EXCEPT ![i].active_effects =
        [j \in 1..(Len(@) - 1) |-> IF j < k THEN @[j] ELSE @[j + 1]]]

\* Some active effect of the opponent lists the effect_type of fighter i's
\* k-th effect in its counters.
Countered(c, i, k) ==
    \E j \in DOMAIN c[Other(i)].active_effects :
       c[i].active_effects[k].effect_type \in c[Other(i)].active_effects[j].counters

\* Aggregated stats with the values of one more effect.
Combine(stats, values) ==
    [damage_multiplier |-> stats.damage_multiplier * values.damage_multiplier,
     resistance_multiplier |-> stats.resistance_multiplier * values.resistance_multiplier,
     skip_round |-> stats.skip_round \/ values.skip_round]

\* C17: in process_effects an active effect E of a fighter contributes nothing
\* to that fighter's aggregated stats (they are those computed without E, the
\* skip flag included) exactly when an active effect of the opponent lists E's
\* effect_type in its counters, and contributes its values otherwise, an effect
\* that counters included; E stays in its owner's active_effects.
C17_Countering ==
    [][ProcessEffects =>
         /\ core' = core
         /\ \A i \in FighterIds : \A k \in DOMAIN core[i].active_effects :
               LET absent == process_effects(Without(core, i, k), battle_state)[i]
                   values == get_effect_values(core[i].active_effects[k],
                                               Len(battle_state.round_history))
               IN modified_stats'[i] =
                     IF Countered(core, i, k) THEN absent ELSE Combine(absent, values)]_vars

\* process_effects has returned for lists in which fighter1's South Pacific
\* effect is countered by fighter2's Counter, which itself counts: damage
\* multiplier 1 and no skip for fighter1, tripled resistance for fighter2.
C17_Witness ==
    /\ program = "process"
    /\ modified_stats # <<>>
    /\ \E k \in DOMAIN core[1].active_effects :
          /\ core[1].active_effects[k].name = "South Pacific (Dexterity)"
          /\ Countered(core, 1, k)
    /\ \E k \in DOMAIN core[2].active_effects :
          /\ core[2].active_effects[k].name = "Counter"
          /\ ~Countered(core, 2, k)
    /\ modified_stats[1].damage_multiplier = 1 /\ ~modified_stats[1].skip_round
    /\ modified_stats[2].resistance_multiplier = 3

RECURSIVE Aggregate(_, _, _, _)
\* The product of the multipliers and the OR of the skip flags of the first n
\* effects of fighter i's list that are not countered, in list order.
Aggregate(c, bs, i, n) ==
    IF n = 0 THEN Neutral
    ELSE IF Countered(c, i, n) THEN Aggregate(c, bs, i, n - 1)
    ELSE Combine(Aggregate(c, bs, i, n - 1),
                 get_effect_values(c[i].active_effects[n], Len(bs.round_history)))

Priorities == {1, 2}

\* The fighters with fighter i's list reordered and its priorities replaced.
Rearranged(c, i, order, priority) ==
    [c EXCEPT ![i].active_effects =
        [k \in DOMAIN @ |-> [@[order[k]] EXCEPT !.priority = priority[k]]]]

\* C18: process_effects returns for each fighter the product of the damage and
\* of the resistance multipliers of its non-countered active effects and the OR
\* of their skip flags, whatever the order and the priorities of a list;
\* it changes no fighter, effect or history, and returns 1, 1, false for a
\* fighter without active effects.
C18_ProductAndOr ==
    [][ProcessEffects =>
         /\ \A i \in FighterIds :
               /\ modified_stats'[i] =
                     Aggregate(core, battle_state, i, Len(core[i].active_effects))
               /\ core[i].active_effects = <<>> => modified_stats'[i] = Neutral
         /\ \A i \in FighterIds :
               \A order \in Permutations(DOMAIN core[i].active_effects),
                  priority \in [DOMAIN core[i].active_effects -> Priorities] :
                     process_effects(Rearranged(core, i, order, priority),
                                     battle_state) = modified_stats'
         /\ UNCHANGED <<core, battle_state, round_states, round_vars>>]_vars

\* process_effects has returned for a fighter with two effects of different
\* priorities, neither countered, one doubling the resistance and one
\* skipping, against a fighter without effects.
C18_Witness ==
    /\ program = "process"
    /\ modified_stats # <<>>
    /\ \E i \in FighterIds :
          /\ Len(core[i].active_effects) = 2
          /\ core[i].active_effects[1].priority # core[i].active_effects[2].priority
          /\ modified_stats[i] = [damage_multiplier |-> 0, resistance_multiplier |-> 2,
                                  skip_round |-> TRUE]
          /\ core[Other(i)].active_effects = <<>>
          /\ modified_stats[Other(i)] = Neutral

RECURSIVE DamageBonus(_)
\* The sum of the bonuses of the permanent damage effects of a list.
DamageBonus(list) ==
    IF list = <<>> THEN 0
    ELSE (IF list[1].effect_type = "PERMANENT_DAMAGE" THEN list[1].permanent_bonus ELSE 0)
         + DamageBonus(Tail(list))

OnlyDamageBonus(list) ==
    \A k \in DOMAIN list : list[k].effect_type = "PERMANENT_DAMAGE"

\* C19: from apply_pillz on, a permanent damage effect with bonus b adds b, once,
\* to get_total_damage in every round of the battle, and a round its fighter
\* wins with no other effect active awards
\* (damage + b) * (1 - opponent total resistance / 100) points, in hundredths here.
C19_PermanentBonus ==
    /\ [](program = "battle" =>
            \A i \in FighterIds :
               get_total_damage(core[i])
                  = core[i].damage + DamageBonus(core[i].active_effects))
    /\ [][ProcessRound =>
            \A w \in FighterIds :
               LET l == Other(w)
                   rs == round_states'[battle_state.current_round_state]
                   moves == <<rs.fighter1_move, rs.fighter2_move>>
               IN (/\ OnlyDamageBonus(core[w].active_effects)
                   /\ core[l].active_effects = <<>>
                   /\ does_move_win(moves[w], moves[l]))
                  => /\ returned'[w + 1] =
                          (core[w].damage + DamageBonus(core[w].active_effects))
                             * (Hundred - get_total_resistance(core[l]))
                     /\ core'[w].active_effects = core[w].active_effects]_vars

\* fighter1 (damage 30) took Godzilla Cake with bonus 10 in an earlier round and
\* has now won a round against resistance 30 for 28 points, 2800 hundredths.
C19_Witness ==
    /\ Processed
    /\ Len(core[1].active_effects) = 1
    /\ core[1].active_effects[1].effect_type = "PERMANENT_DAMAGE"
    /\ core[1].active_effects[1].permanent_bonus = 10
    /\ core[1].activation_rounds[core[1].active_effects[1].id] < battle_state.current_round
    /\ core[2].active_effects = <<>>
    /\ core[1].damage = 30 /\ get_total_resistance(core[2]) = 30
    /\ returned[1] = Wins(core[1].name)
    /\ returned[2] = 2800

\* C20: an effect with target OPPONENT (Weakness, Rust) lowers the stats of the
\* opponent of the fighter who invoked its pillz and does not raise that
\* fighter's own: when every effect held has target OPPONENT, the damage that
\* _calculate_damage uses for the attacker is at most the attacker's damage and
\* the resistance it uses for the defender is at most the defender's resistance.
C20_OpponentTarget ==
    [][Resolve =>
         \A w \in FighterIds :
            LET l == Other(w)
                after == [Manager EXCEPT !.effects = effects',
                                         !.active_effects = active_effects']
            IN (/\ RoundResolveMoves(round.state) = w
                /\ \A i \in FighterIds : \A k \in DOMAIN active_effects'[i] :
                      effects'[active_effects'[i][k]].target = "OPPONENT")
               => /\ Modified(fighters[w].damage, after, active_effects'[w], "DAMAGE")
                       <= fighters[w].damage
                  /\ Modified(fighters[l].resistance, after, active_effects'[l],
                              "RESISTANCE") <= fighters[l].resistance]_vars

(***************************************************************************)
(* C21..C30                                                                *)
(***************************************************************************)
\* What a round may change besides its own selections: the points and the
\* contents of the effect manager.
Kept == <<fighters, effects, active_effects, pending_effects, effect_history>>

\* C21: resolve() of a Round and resolve_round() of a GameRound raise when a
\* move is unset, and then neither the points nor the active, pending and
\* history contents of the manager change; a Round changes them only in a
\* resolve() with both moves set, which raises nothing.
C21_UnsetMoveRaises ==
    [][/\ ResolveUnset => raised' = MovesNotSelected /\ Kept' = Kept
       /\ ResolveRoundUnset => raised' = MovesNotSet /\ Kept' = Kept
       /\ (program = "select" /\ Kept' # Kept)
             => /\ round.state.fighter1_move # None
                /\ round.state.fighter2_move # None
                /\ raised' = None]_vars

\* resolve() has raised in round 2, with one move and a pillz selected, points
\* scored and an effect held from round 1.
C21_Witness ==
    /\ program = "select"
    /\ raised = MovesNotSelected
    /\ round.round_number = 2
    /\ round.state.fighter1_move # None /\ round.state.fighter2_move = None
    /\ round.state.fighter1_pillz # None
    /\ effects # <<>>
    /\ \E i \in FighterIds : fighters[i].points > 0

\* resolve_round() has raised with one move set, points scored before.
C21_WitnessGame ==
    /\ program = "game"
    /\ raised = MovesNotSet
    /\ game_round.move1 # None /\ game_round.move2 = None
    /\ \E i \in FighterIds : fighters[i].points > 0


\* The calls that can raise for an unset move: a Round driven call by call and
\* the GameRound loop.
InitUnset == InitSelect \/ InitGame
NextUnset == NextSelect \/ NextGame
SpecUnset == InitUnset /\ [][NextUnset]_vars


\* The selections a round holds.
Selections(r) == <<r.state.fighter1_move, r.state.fighter2_move,
                   r.state.fighter1_pillz, r.state.fighter2_pillz>>

\* C22: on the round under selection, set_move and set_pillz with an id that
\* names neither fighter raise and leave the four selections as they are; with
\* the name of a fighter they raise nothing and replace that fighter's move
\* (or pillz) only.
C22_UnknownFighterRaises ==
    (program = "select" /\ ~round.resolved) =>
        \A fighter_id \in SelectIds :
            LET sel == Selections(round)
                known == {i \in FighterIds : fighters[i].name = fighter_id}
            IN /\ \A move \in SelectMoves :
                    LET call == set_move(fighters, round, fighter_id, move)
                        new == Selections(call.round)
                    IN /\ known = {} => call.raised = UnknownFighter /\ new = sel
                       /\ \A i \in known :
                             /\ call.raised = None
                             /\ new = [sel EXCEPT ![i] = move]
               /\ \A pillz \in SelectPillz :
                    LET call == set_pillz(fighters, round, fighter_id, pillz)
                        new == Selections(call.round)
                    IN /\ known = {} => call.raised = UnknownFighter /\ new = sel
                       /\ \A i \in known :
                             /\ call.raised = None
                             /\ new = [sel EXCEPT ![2 + i] = pillz]

\* A call with an unknown id has raised while a move and a pillz were recorded.
C22_Witness ==
    /\ program = "select"
    /\ raised = UnknownFighter
    /\ round.state.fighter2_move # None
    /\ round.state.fighter1_pillz # None

\* Both fighters have a move and a pillz recorded.
C22_WitnessBoth ==
    /\ program = "select"
    /\ ~round.resolved
    /\ \A k \in 1..4 : Selections(round)[k] # None


\* C23: Fighter(name, damage, resistance) returns exactly when both stats are
\* in 0..100, and then the fighter holds the name and the stats given and 0
\* points; otherwise it raises and constructs nothing.  Every fighter that
\* exists has its stats in 0..100.
C23_FighterCreation ==
    program = "create" =>
        /\ \A damage \in StatInputs, resistance \in StatInputs :
              LET call == Fighter("Player", damage, resistance)
              IN IF damage \in 0..100 /\ resistance \in 0..100
                 THEN /\ call.raised = None
                      /\ call.fighter = [name |-> "Player", damage |-> damage,
                                         resistance |-> resistance, points |-> 0]
                 ELSE /\ call.raised = InvalidStats
                      /\ call.fighter = None
        /\ \A i \in FighterIds :
              fighters[i].name # None =>
                  /\ fighters[i].damage \in 0..100
                  /\ fighters[i].resistance \in 0..100
                  /\ fighters[i].points = 0

\* A fighter with the stats 100 and 0 exists, and the creation of the other
\* one has raised.
C23_Witness ==
    /\ program = "create"
    /\ raised = InvalidStats
    /\ fighters[1].name = "Player"
    /\ fighters[1].damage = 100 /\ fighters[1].resistance = 0
    /\ fighters[2].name = None


\* C24: get_ai_pillz, which hands a value of the whole PillzType list to
\* create_pillz, never ends in the ValueError of an unregistered type, and the
\* pillz it returns is a fresh one of a PillzType.
C24_EveryTypeRegistered ==
    program = "create" =>
        /\ raised # UnknownPillzType
        /\ ai_pillz # NoPillz => ai_pillz.type \in PillzType /\ ai_pillz._effect = NoEffect


\* The two programs that read StatModifier values: a modifier of its own, and
\* the rounds of main.py, where Round.resolve reads the modifiers between the
\* effect applications and the round-end expiry.
InitValues == InitModifier \/ InitRound
NextValues == NextModifier \/ NextRound
SpecValues == InitValues /\ [][NextValues]_vars

\* C25: outside testing mode get_value() of a fixed modifier returns its
\* amount and of a HALF modifier -1; of a random modifier it returns a value in
\* 1..N, which it caches, and the cached value whenever there is one.  A value
\* cached by a modifier of an effect stays what it is through every later
\* resolve(), with its applications and expiries.
C25_RandomValueCached ==
    [][/\ (GetValue /\ ~stat_modifier._testing_mode) =>
             IF ~stat_modifier.is_random
             THEN /\ got' = IF stat_modifier.value.int THEN stat_modifier.value.n ELSE 0 - 1
                  /\ stat_modifier' = stat_modifier
             ELSE /\ got' \in 1..(IF stat_modifier.value.int
                                  THEN stat_modifier.value.n ELSE 10)
                  /\ stat_modifier._cached_random_value # NoValue
                        => got' = stat_modifier._cached_random_value
                  /\ stat_modifier'._cached_random_value = got'
       /\ program = "round" =>
             \A e \in DOMAIN effects : \A j \in DOMAIN effects[e].modifiers :
                 LET cached == effects[e].modifiers[j]._cached_random_value
                 IN cached # NoValue =>
                       /\ cached \in 1..effects[e].modifiers[j].value
                       /\ effects'[e].modifiers[j]._cached_random_value = cached]_vars

\* A random modifier with the bound 3 has returned and cached 2.
C25_Witness ==
    /\ program = "modifier"
    /\ stat_modifier.is_random /\ stat_modifier.value = IntValue(3)
    /\ ~stat_modifier._testing_mode
    /\ stat_modifier._cached_random_value = 2
    /\ got = 2

\* Round 2 is about to be resolved and an effect is active with the value its
\* modifier drew in round 1, before the round-end expiry of that round.
C25_WitnessRound ==
    /\ program = "round"
    /\ round.round_number = 2 /\ ~round.resolved
    /\ \E i \in FighterIds : \E k \in DOMAIN active_effects[i] :
          LET e == effects[active_effects[i][k]]
          IN /\ e.modifiers[1].is_random
             /\ e.modifiers[1]._cached_random_value # NoValue


\* C26: when a round is resolved with a damage other than the one the bare
\* stats of the attacker and the defender give, so that a modifier of an active
\* effect changed the damage or the resistance, effect_history holds an entry
\* with the number of that round.
C26_ModifierLogged ==
    (program = "round" /\ round.resolved /\ round.state.round_winner # None) =>
        LET attacker == CHOOSE i \in FighterIds : fighters[i].name = round.state.round_winner
            defender == Other(attacker)
        IN round.state.damage_dealt
              # PyRound(fighters[attacker].damage, fighters[defender].resistance)
                 => \E k \in DOMAIN effect_history :
                       effect_history[k].round_number = round.round_number


\* C27: every step of the manager keeps the history it found as a prefix of
\* the history it leaves; log_effect adds exactly one entry at the end, made of
\* the round, the name of the effect, the value, the stat and the fighter it
\* was given, and add_effect, apply, activate_pending_effect and
\* process_round_end leave the history as it is.
C27_HistoryAppendOnly ==
    [][/\ Len(effect_history') >= Len(effect_history)
       /\ SubSeq(effect_history', 1, Len(effect_history)) = effect_history
       /\ LogEffect =>
             /\ Len(effect_history') = Len(effect_history) + 1
             /\ \E i \in FighterIds, round_number \in LogRounds :
                \E k \in DOMAIN active_effects[i] :
                   effect_history'[Len(effect_history')] =
                      [round_number |-> round_number,
                       effect_name |-> effects[active_effects[i][k]].name,
                       applied_value |-> effects[active_effects[i][k]].modifiers[1].value,
                       stat_modified |-> effects[active_effects[i][k]].modifiers[1].stat_type,
                       target_fighter |-> i]
       /\ (AddEffect \/ ApplyEffect \/ ActivatePendingEffect \/ ProcessRoundEnd)
             => effect_history' = effect_history]_vars

\* Two entries are logged, for different effects, and the effect of the first
\* entry has since been removed by process_round_end.
C27_Witness ==
    /\ program = "log"
    /\ Len(effect_history) = 2
    /\ effect_history[1].effect_name # effect_history[2].effect_name
    /\ \E e \in DOMAIN effects :
          /\ effects[e].name = effect_history[1].effect_name
          /\ \A i \in FighterIds : ~Holds(active_effects[i], e)
                                   /\ ~Holds(pending_effects[i], e)


\* C28: no step changes a record that round_history holds, and every
\* process_round call adds one record, a RoundState object that the history
\* did not hold before.
C28_RecordsImmutable ==
    [][/\ \A k \in DOMAIN battle_state.round_history :
             /\ k \in DOMAIN battle_state'.round_history
             /\ round_states'[battle_state'.round_history[k]]
                   = round_states[battle_state.round_history[k]]
       /\ ProcessRound =>
             LET history == battle_state'.round_history
             IN /\ Len(history) = Len(battle_state.round_history) + 1
                /\ \A k \in 1..(Len(history) - 1) : history[k] # history[Len(history)]]_vars


\* C29: no effect is in the active and in the pending list of a fighter at the
\* same time, and no step puts an effect that is in an active list into a
\* pending list.
C29_NeverBackToPending ==
    [][\A e \in DOMAIN effects : \A i \in FighterIds :
          /\ ~(Holds(active_effects'[i], e) /\ Holds(pending_effects'[i], e))
          /\ Holds(active_effects[i], e) =>
                \A j \in FighterIds :
                   Holds(pending_effects'[j], e) => Holds(pending_effects[j], e)]_vars


\* C30: an effect that is active keeps its applied_at_round and its
\* expires_at_round through every step: a second apply() does not write them.
C30_SecondApplyKeepsTimers ==
    [][\A e \in DOMAIN effects :
          effects[e].is_active =>
             /\ effects'[e].applied_at_round = effects[e].applied_at_round
             /\ effects'[e].expires_at_round = effects[e].expires_at_round]_vars


\* C31: a resolve() won by a fighter who invokes Godzilla Cake leaves a new
\* Brave effect with a drawn value in 1..10 in the winner's active list; when
\* no other effect is held and the loser invokes nothing, damage_dealt is
\* round((damage + v) * (1 - resistance/100)), which for damage 30 against
\* resistance 30 is more than 21.
C31_BraveCountsAtOnce ==
    [][Resolve =>
         LET w == RoundResolveMoves(round.state)
             l == Other(w)
             pillz == <<round.state.fighter1_pillz, round.state.fighter2_pillz>>
         IN (w # 0 /\ pillz[w] = "GODZILLA_CAKE") =>
               \E k \in DOMAIN active_effects'[w] :
                  LET e == active_effects'[w][k]
                      v == effects'[e].modifiers[1]._cached_random_value
                  IN /\ e \notin DOMAIN effects
                     /\ effects'[e].name = "Brave"
                     /\ v \in 1..10
                     /\ (effects = <<>> /\ pillz[l] = None) =>
                           /\ round'.state.damage_dealt =
                                 PyRound(fighters[w].damage + v, fighters[l].resistance)
                           /\ (fighters[w].damage = 30 /\ fighters[l].resistance = 30)
                                 => round'.state.damage_dealt > 21]_vars

\* Player (damage 30) won round 1 against resistance 30 with a Godzilla Cake
\* that drew 1, and was awarded round(31 * 0.7) = 22; Brave is active.
C31_Witness ==
    /\ Resolved
    /\ round.round_number = 1
    /\ Winner(round) = 1
    /\ round.state.fighter1_pillz = "GODZILLA_CAKE"
    /\ round.state.fighter2_pillz = None
    /\ round.state.damage_dealt = 22
    /\ Len(active_effects[1]) = 1
    /\ effects[active_effects[1][1]].name = "Brave"


\* C32: for the five moves the base outcome is a draw exactly when the two
\* moves are equal, and of two different moves exactly one beats the other:
\* _get_base_round_result never returns 'no effect', and no round resolved by
\* BattleSystem._resolve_moves, Round._resolve_moves or GameRound.resolve_round
\* ends in the 'No effect' / 'No advantage' branch.
C32_DrawOnlyOnEqualMoves ==
    /\ \A move1 \in MoveNames, move2 \in MoveNames :
          /\ _get_base_round_result(move1, move2) = "draw" <=> move1 = move2
          /\ move1 # move2 =>
                /\ does_move_win(move1, move2) # does_move_win(move2, move1)
                /\ _get_base_round_result(move1, move2) \in
                      {"fighter1 wins", "fighter2 wins"}
    /\ \A move1 \in Moves, move2 \in Moves :
          move1 # move2 =>
             (move2 \in MOVE_ADVANTAGES[move1]) # (move1 \in MOVE_ADVANTAGES[move2])
    /\ Processed =>
          LET rs == round_states[battle_state.current_round_state]
          IN /\ rs.result # Fixed("No effect")
             /\ rs.result \in {Fixed("Draw"), Wins(core[1].name), Wins(core[2].name)}
                   => (rs.result = Fixed("Draw") <=> rs.fighter1_move = rs.fighter2_move)
    /\ Resolved =>
          (round.state.round_winner = None
              <=> round.state.fighter1_move = round.state.fighter2_move)
    /\ (program = "game" /\ game_round.round_num > 0 /\ raised = None) =>
          /\ game_round.outcome # "No advantage"
          /\ game_round.outcome = "Draw" <=> game_round.move1 = game_round.move2
          /\ game_round.outcome \in {"Draw", fighters[1].name, fighters[2].name}

\* Strike against Rush in process_round: the second fighter won and scored.
C32_Witness ==
    /\ Processed
    /\ LET rs == round_states[battle_state.current_round_state]
       IN /\ rs.fighter1_move = "Strike"
          /\ rs.fighter2_move = "Rush"
          /\ rs.result = Wins(core[2].name)
          /\ rs.points_gained2 > 0

\* A Round resolved with STRIKE against RUSH names the second fighter winner.
C32_WitnessRound ==
    /\ Resolved
    /\ round.state.fighter1_move = "STRIKE"
    /\ round.state.fighter2_move = "RUSH"
    /\ Winner(round) = 2


\* C33: process_round_end(r) removes from every fighter's active list exactly
\* the effects that are applied, not PERMANENT and have expires_at_round = r,
\* keeps the others in their order, and leaves the pending lists, the history
\* and the effects themselves as they were.
C33_RoundEndRemovesExpiredOnly ==
    [][ProcessRoundEnd =>
         \E r \in CallRounds :
            LET Kept33(effect) == ~(/\ effects[effect].is_active
                                    /\ effects[effect].duration # "PERMANENT"
                                    /\ effects[effect].expires_at_round = r)
            IN /\ \A i \in FighterIds :
                     active_effects'[i] = SelectSeq(active_effects[i], Kept33)
               /\ pending_effects' = pending_effects
               /\ effect_history' = effect_history
               /\ effects' = effects]_vars

\* An applied CURRENT effect is gone from every list while an applied
\* PERMANENT effect is still active and a pending effect still pending.
C33_Witness ==
    /\ program = "effects"
    /\ \E gone \in DOMAIN effects :
          /\ effects[gone].is_active
          /\ effects[gone].duration = "CURRENT"
          /\ \A i \in FighterIds : ~Holds(active_effects[i], gone)
    /\ \E i \in FighterIds : \E k \in DOMAIN active_effects[i] :
          /\ effects[active_effects[i][k]].is_active
          /\ effects[active_effects[i][k]].duration = "PERMANENT"

\* A round end that removed nothing: the applied CURRENT effect expires in
\* another round than the one ended, and a pending effect is still pending.
C33_WitnessKept ==
    /\ program = "effects"
    /\ \E i \in FighterIds : \E k \in DOMAIN active_effects[i] :
          /\ effects[active_effects[i][k]].is_active
          /\ effects[active_effects[i][k]].expires_at_round = 2
    /\ \E i \in FighterIds : pending_effects[i] # <<>>


\* C34: an effect leaves a fighter's pending list for the active list only
\* when a round has been resolved whose outcome for that fighter satisfies the
\* effect's can_activate.
C34_PromotedOnlyOnOutcome ==
    [][\A i \in FighterIds : \A effect \in DOMAIN effects :
          (/\ Holds(pending_effects[i], effect)
           /\ ~Holds(active_effects[i], effect)
           /\ Holds(active_effects'[i], effect))
          => /\ round.round_number > 0
             /\ round.resolved
             /\ EffectCanActivate(effects[effect], Winner(round) = i)]_vars


\* C35: an ALWAYS effect of duration d >= 1 applied for round r is no longer
\* in its owner's active_effects when round r + d is to be aggregated: while
\* the current round awaits process_round, every such effect held was applied
\* less than d rounds before it.
C35_LastsDurationRounds ==
    (program = "battle" /\ ~Processed) =>
       \A i \in FighterIds : \A k \in DOMAIN core[i].active_effects :
          LET effect == core[i].active_effects[k]
          IN (/\ effect.duration >= 1
              /\ effect.activation_condition = "ALWAYS"
              /\ effect.id \in DOMAIN core[i].activation_rounds)
             => battle_state.current_round - core[i].activation_rounds[effect.id]
                   < effect.duration


\* C36: a South Pacific effect applied for the round about to be processed
\* makes its owner's aggregated skip_round true and damage_multiplier 0 in
\* that round, and one applied for the round before makes the
\* damage_multiplier 2 with skip_round false when no other effect is held.
C36_ValuesBySinceActivation ==
    (program = "battle" /\ ~Processed) =>
       \A i \in FighterIds : \A k \in DOMAIN core[i].active_effects :
          LET effect == core[i].active_effects[k]
              stats == process_effects(core, battle_state)[i]
              since == battle_state.current_round - core[i].activation_rounds[effect.id]
          IN effect.name = "South Pacific (Dexterity)" =>
                /\ since = 0 => stats.skip_round /\ stats.damage_multiplier = 0
                /\ (since = 1 /\ Len(core[i].active_effects) = 1) =>
                      ~stats.skip_round /\ stats.damage_multiplier = 2


\* C37: once process_round has recorded a round, get_round_result_for_fighter
\* is 'win' for the fighter the result names as winner, 'lose' for the other
\* fighter, and 'draw' for both fighters after a 'Draw'.
C37_ResultPerFighter ==
    Processed =>
       LET result == round_states[battle_state.current_round_state].result
       IN \A i \in FighterIds :
             LET seen == get_round_result_for_fighter(battle_state, round_states, i)
             IN /\ IsWin(result, core[i].name) => seen = "win"
                /\ IsWin(result, core[Other(i)].name) => seen = "lose"
                /\ result = Fixed("Draw") => seen = "draw"


\* C38: simulate_single_battle returns, and it returns after exactly
\* max_rounds = 6 rounds with one battle_log entry and one round_history
\* record per round; current_round stays within 1..max_rounds, and the
\* advance_round called at current_round = max_rounds returns False and
\* leaves the BattleState as it was.
C38_SixRoundsThenStop ==
    /\ [](program = "simulate" =>
            /\ battle_state.current_round \in 1..max_rounds
            /\ Len(battle_log) = Len(battle_state.round_history)
            /\ Len(battle_log) = IF pc = "process_round"
                                 THEN battle_state.current_round - 1
                                 ELSE battle_state.current_round
            /\ \A k \in DOMAIN battle_log :
                  /\ battle_log[k].round = k
                  /\ round_states[battle_state.round_history[k]].round_number = k
            /\ pc = "return" => Len(battle_log) = max_rounds)
    /\ [][(SimulateAdvance /\ battle_state.current_round = max_rounds)
             => /\ pc' = "return"
                /\ battle_state' = battle_state
                /\ round_states' = round_states]_vars
    /\ <>(pc = "return")

\* The battle returned: six rounds logged, six records, round 6 the last.
C38_Witness ==
    /\ program = "simulate"
    /\ pc = "return"
    /\ Len(battle_log) = 6
    /\ Len(battle_state.round_history) = 6
    /\ battle_state.current_round = 6


\* The programs that activate a pillz: the caller's own calls and the rounds.
InitGate == InitInvoke \/ InitRound

NextGate == NextInvoke \/ NextRound

SpecGate == InitGate /\ [][NextGate]_vars

\* The gating check of a pillz type fails for the outcome.
GateFails(pillz_type, won_round) ==
    \/ activation_type(pillz_type) = "LOSE_MOVE_ONLY" /\ won_round
    \/ activation_type(pillz_type) = "WIN_MOVE_ONLY" /\ ~won_round

\* C39: a pillz whose gating check fails is activated without effect:
\* activate returns None and leaves the pillz's stored effect and the effects
\* created so far as they were; and a resolve() in which the only pillz set
\* fails its check creates no effect, adds nothing to that fighter's active
\* or pending list, and sets winner, damage, points and expiry just as the
\* same round without the pillz would.
C39_FailedGateChangesNothing ==
    /\ [](program = "invoke" /\ ai_pillz # NoPillz =>
            \A won_round \in BOOLEAN :
               GateFails(ai_pillz.type, won_round) =>
                  activate(ai_pillz, won_round, effects) =
                     [pillz |-> ai_pillz, effects |-> effects, returns |-> NoEffect])
    /\ [][Resolve =>
            LET w == RoundResolveMoves(round.state)
                pillz == <<round.state.fighter1_pillz, round.state.fighter2_pillz>>
            IN \A i \in FighterIds :
                  (/\ pillz[i] # None
                   /\ pillz[Other(i)] = None
                   /\ GateFails(pillz[i], w = i))
                  => /\ Len(effects') = Len(effects)
                     /\ pending_effects' = pending_effects
                     /\ \A k \in DOMAIN active_effects'[i] :
                           Holds(active_effects[i], active_effects'[i][k])
                     /\ round'.state.round_winner =
                           IF w = 0 THEN None ELSE fighters[w].name
                     /\ IF w = 0
                        THEN /\ fighters' = fighters
                             /\ round'.state.damage_dealt = 0
                             /\ active_effects' =
                                   process_round_end(Manager, round.round_number).active_effects
                             /\ effects' = effects
                        ELSE \E rolls \in
                                 [Undrawn(Manager, active_effects[w], "DAMAGE")
                                    \cup Undrawn(Manager, active_effects[Other(w)],
                                                 "RESISTANCE") -> RandomRolls] :
                                LET drawn == Draw(Manager, rolls)
                                    damage == RoundCalculateDamage(drawn, fighters,
                                                                   w, Other(w))
                                IN /\ round'.state.damage_dealt = damage
                                   /\ fighters' = [fighters EXCEPT ![w].points = @ + damage]
                                   /\ effects' = drawn.effects
                                   /\ active_effects' =
                                         process_round_end(drawn, round.round_number)
                                            .active_effects]_vars

\* Player won round 1 holding a Jurassic pillz, which activates on a lost
\* move only: no effect exists and the 21 points of the bare stats were dealt.
C39_Witness ==
    /\ Resolved
    /\ round.round_number = 1
    /\ round.state.fighter1_pillz = "JURASSIC"
    /\ Winner(round) = 1
    /\ effects = <<>>
    /\ active_effects[1] = <<>> /\ pending_effects[1] = <<>>
    /\ round.state.damage_dealt = 21
    /\ fighters[1].points = 21

====
